---- MODULE Spec2Model ----
(***************************************************************************)
(* Model of the tempo-explorer ingestion pipeline:                         *)
(*   lib/ingestion/block-ingestion.ts      (ingestBlock)                   *)
(*   lib/ingestion/transaction-ingestion.ts (src/unnamed/part_002, 1-181)  *)
(*   lib/ingestion/stablecoin-stats.ts      (src/unnamed/part_002, 184-454)*)
(*   lib/ingestion/stablecoin-ingestion.ts  (src/unnamed/part_000)         *)
(* JavaScript null and undefined (and SQL NULL) are both written Null; a    *)
(* nullable value v that is present is written Some(v).  Strings that the  *)
(* code inspects character by character (block identifiers, hex data,      *)
(* decimal strings) are sequences of one-character strings.                *)
(***************************************************************************)
EXTENDS Integers, Sequences, FiniteSets, TLC

Null == <<>>
Some(v) == <<v>>
Val(o) == o[1]

\* ------------------------------------------------------------------ bounds
\* Longest block identifier drawn in SpecParse.
MaxIdLen == 3
\* Number of ingestBlock calls started in one behaviour of Spec.
MaxCalls == 2

\* ------------------------------------------------------- character helpers
HexChars == <<"0","1","2","3","4","5","6","7","8","9","a","b","c","d","e","f">>
DecChars == <<"0","1","2","3","4","5","6","7","8","9">>

IsHexDigit(c) == \E i \in 1..Len(HexChars) : HexChars[i] = c
IsDecDigit(c) == \E i \in 1..Len(DecChars) : DecChars[i] = c
DigitVal(c) == (CHOOSE i \in 1..Len(HexChars) : HexChars[i] = c) - 1

AllDec(s) == \A i \in 1..Len(s) : IsDecDigit(s[i])
AllHex(s) == \A i \in 1..Len(s) : IsHexDigit(s[i])

\* The value of a digit string; its leading zeros are skipped first.
RECURSIVE DigitsValue(_, _)
DigitsValue(s, base) ==
  IF s = <<>> THEN 0
  ELSE IF s[1] = "0" /\ \E i \in 1..Len(s) : s[i] # "0" THEN
    DigitsValue(SubSeq(s, CHOOSE i \in 1..Len(s) :
                            s[i] # "0" /\ \A j \in 1..(i - 1) : s[j] = "0", Len(s)), base)
  ELSE DigitsValue(SubSeq(s, 1, Len(s) - 1), base) * base + DigitVal(s[Len(s)])

\* String.prototype.startsWith('0x')
StartsWith0x(s) == Len(s) >= 2 /\ s[1] = "0" /\ s[2] = "x"

\* BigInt.prototype.toString(): the decimal digits of a natural number.
RECURSIVE ToDecimalString(_)
ToDecimalString(n) ==
  IF n < 10 THEN <<DecChars[n + 1]>>
  ELSE Append(ToDecimalString(n \div 10), DecChars[(n % 10) + 1])

\* BigInt(<decimal string>) for the strings the store holds.
ParseBigInt(s) == DigitsValue(s, 10)

\* ---------------------------------------------------- Number(<string>)
\* The result of JavaScript's Number(s): NaN, or a sign, an integer part and
\* whether a non-zero fraction follows.  Over the identifier alphabet below no
\* white space, exponent, "+" or "Infinity" occurs.
NaN == [nan |-> TRUE, neg |-> FALSE, int |-> 0, frac |-> FALSE]
Num(neg, int, frac) == [nan |-> FALSE, neg |-> neg, int |-> int, frac |-> frac]

DotPositions(s) == {i \in 1..Len(s) : s[i] = "."}

\* StrUnsignedDecimalLiteral: digits [. digits*] | . digits
UnsignedDecimal(s, neg) ==
  IF s = <<>> THEN NaN
  ELSE IF DotPositions(s) = {} THEN
    IF AllDec(s) THEN Num(neg, DigitsValue(s, 10), FALSE) ELSE NaN
  ELSE IF Cardinality(DotPositions(s)) > 1 THEN NaN
  ELSE LET d == CHOOSE i \in DotPositions(s) : TRUE
           ip == SubSeq(s, 1, d - 1)
           fp == SubSeq(s, d + 1, Len(s))
       IN IF Len(ip) + Len(fp) = 0 \/ ~AllDec(ip) \/ ~AllDec(fp) THEN NaN
          ELSE Num(neg, DigitsValue(ip, 10), \E i \in 1..Len(fp) : fp[i] # "0")

JsNumber(s) ==
  IF s = <<>> THEN Num(FALSE, 0, FALSE)
  ELSE IF StartsWith0x(s) THEN
    IF Len(s) >= 3 /\ AllHex(SubSeq(s, 3, Len(s)))
    THEN Num(FALSE, DigitsValue(SubSeq(s, 3, Len(s)), 16), FALSE)
    ELSE NaN
  ELSE IF s[1] = "-" THEN UnsignedDecimal(SubSeq(s, 2, Len(s)), TRUE)
  ELSE UnsignedDecimal(s, FALSE)

\* blockNum >= 0 (IEEE: -0 >= 0 holds)
NonNegative(v) == ~v.neg \/ (v.int = 0 /\ ~v.frac)

\* ------------------------------------------------ ingestBlock: identifier
\* Lines 42-55: what the parse leaves in blockNumber / blockHash, or the error
\* it throws.  BigInt(x) throws a RangeError for a non-integer x.
ParseBlockId(blockId) ==
  LET blockNum == JsNumber(blockId)
  IN IF ~blockNum.nan /\ NonNegative(blockNum) THEN
       IF blockNum.frac
       THEN [outcome |-> "RangeError", blockNumber |-> Null, blockHash |-> Null]
       ELSE [outcome |-> "ok", blockNumber |-> Some(blockNum.int), blockHash |-> Null]
     ELSE IF StartsWith0x(blockId)
       THEN [outcome |-> "ok", blockNumber |-> Null, blockHash |-> Some(blockId)]
     ELSE [outcome |-> "InvalidBlockId", blockNumber |-> Null, blockHash |-> Null]

\* Lines 59-67: `blockNumber ? getBlock({blockNumber}) : getBlock({blockHash})`.
\* 0n and undefined are both falsy, so they take the blockHash branch.
BlockRequest(parsed) ==
  IF parsed.outcome # "ok"
    THEN [by |-> "none", blockNumber |-> Null, blockHash |-> Null]
  ELSE IF parsed.blockNumber # Null /\ Val(parsed.blockNumber) # 0
    THEN [by |-> "blockNumber", blockNumber |-> parsed.blockNumber, blockHash |-> Null]
  ELSE [by |-> "blockHash", blockNumber |-> Null, blockHash |-> parsed.blockHash]

\* ------------------------------------------------------------ addresses
ZeroAddress == "0x0000000000000000000000000000000000000000"

\* String.prototype.toLowerCase() on the addresses and topics of the model:
\* "0xAbCd" and "0xC0DE" are the checksummed spellings of "0xabcd", "0xc0de".
Lower(a) ==
  CASE a = "0xAbCd" -> "0xabcd"
    [] a = "0xC0DE" -> "0xc0de"
    [] OTHER -> a

\* `x || null` / `if (x)` for a nullable bigint or number: 0 is falsy.
Truthy(o) == o # Null /\ Val(o) # 0
OrNull(o) == IF Truthy(o) THEN o ELSE Null

\* ------------------------------------------------- chain data source
TRANSFER_EVENT_SIGNATURE ==
  "0xddf252ad1be2c89b69c2b068fc378daa952ba7f163c4a11628f55a4df523b3ef"
ApprovalSignature ==
  "0x8c5be1e5ebec7d5bd14f71427d1e84f3dd0314c0f7b2291e5b200ac8c7c3b925"

\* A log data word: `zeros` leading "0" digits followed by `digits`.
RECURSIVE Zeros(_)
Zeros(n) == IF n = 0 THEN <<>> ELSE Append(Zeros(n - 1), "0")
HexData(zeros, digits) == <<"0", "x">> \o Zeros(zeros) \o digits

\* The blocks the chain data source serves, by number.
ChainBlocks ==
  <<[number |-> 1, hash |-> <<"0", "x", "b", "1">>, timestamp |-> 10,
     transactions |-> <<"h1", "h2">>],
    [number |-> 2, hash |-> <<"0", "x", "b", "2">>, timestamp |-> 20,
     transactions |-> <<"h3">>],
    [number |-> 3, hash |-> <<"0", "x", "b", "3">>, timestamp |-> 30,
     transactions |-> <<>>]>>

TxHashes == {"h1", "h2", "h3"}

\* getTransaction({hash})
ChainTransaction(h) ==
  CASE h = "h1" -> [hash |-> "h1", to |-> Some("0xAbCd"), value |-> Some(25)]
    [] h = "h2" -> [hash |-> "h2", to |-> Null, value |-> Null]
    [] h = "h3" -> [hash |-> "h3", to |-> Some("0xabcd"), value |-> Some(0)]

\* What getTransactionReceipt serves, by hash.
ChainReceiptOf(h) ==
  CASE h = "h1" ->
         [blockNumber |-> 1, blockHash |-> <<"0", "x", "b", "1">>,
          transactionIndex |-> 0, status |-> "success", gasUsed |-> Some(1),
          contractAddress |-> Null, feeToken |-> Some("0xAbCd"),
          effectiveGasPrice |-> Some(1),
          logs |-> <<[address |-> "0xAbCd",
                      topics |-> <<TRANSFER_EVENT_SIGNATURE>>,
                      data |-> HexData(63, <<"2">>)]>>]
    [] h = "h2" ->
         [blockNumber |-> 1, blockHash |-> <<"0", "x", "b", "1">>,
          transactionIndex |-> 1, status |-> "reverted", gasUsed |-> Some(0),
          contractAddress |-> Some("0xC0DE"), feeToken |-> Null,
          effectiveGasPrice |-> Some(1),
          logs |-> <<[address |-> "0xabcd",
                      topics |-> <<ApprovalSignature>>,
                      data |-> HexData(63, <<"5">>)]>>]
    [] h = "h3" ->
         [blockNumber |-> 2, blockHash |-> <<"0", "x", "b", "2">>,
          transactionIndex |-> 0, status |-> "success", gasUsed |-> Some(3),
          contractAddress |-> Null, feeToken |-> Null,
          effectiveGasPrice |-> Null,
          logs |-> <<[address |-> "0xabcd",
                      topics |-> <<TRANSFER_EVENT_SIGNATURE>>,
                      data |-> HexData(63, <<"1">>)],
                     [address |-> "0xabcd",
                      topics |-> <<TRANSFER_EVENT_SIGNATURE>>,
                      data |-> <<"0", "x">>]>>]

ChainReceipts == [h \in TxHashes |-> ChainReceiptOf(h)]

\* getTransactionReceipt({hash})
ChainReceipt(h) == ChainReceipts[h]

\* getBlock: by number, or by hash.  With blockHash undefined viem falls back
\* to its default block tag, the latest block.  Null when there is no block
\* (viem rejects with BlockNotFoundError; line 69 covers a null return).
GetBlock(req) ==
  IF req.by = "blockNumber" THEN
    IF Val(req.blockNumber) \in 1..Len(ChainBlocks)
    THEN Some(ChainBlocks[Val(req.blockNumber)]) ELSE Null
  ELSE IF req.blockHash = Null THEN Some(ChainBlocks[Len(ChainBlocks)])
  ELSE LET hit == {i \in 1..Len(ChainBlocks) : ChainBlocks[i].hash = Val(req.blockHash)}
       IN IF hit = {} THEN Null ELSE Some(ChainBlocks[CHOOSE i \in hit : TRUE])

\* ------------------------------------------- transaction normalizer
\* transformViemTransaction(tx, receipt, blockTimestamp); receipt is Null or
\* Some(receipt), blockTimestamp is Null or Some(seconds).
transformViemTransaction(tx, receipt, blockTimestamp) ==
  [hash |-> tx.hash,
   to |-> tx.to,
   value |-> IF Truthy(tx.value) THEN Val(tx.value) ELSE 0,
   blockNumber |-> IF receipt # Null /\ Val(receipt).blockNumber # 0
                     THEN Val(receipt).blockNumber ELSE 0,
   blockHash |-> IF receipt # Null THEN Some(Val(receipt).blockHash) ELSE Null,
   transactionIndex |->
     IF receipt # Null THEN Some(Val(receipt).transactionIndex) ELSE Null,
   gasUsed |-> IF receipt # Null THEN Val(receipt).gasUsed ELSE Null,
   status |-> IF receipt = Null THEN Null
              ELSE IF Val(receipt).status = "success" THEN Some("success")
              ELSE IF Val(receipt).status = "reverted" THEN Some("failed")
              ELSE Null,
   contractAddress |-> IF receipt # Null THEN Val(receipt).contractAddress ELSE Null,
   timestamp |-> blockTimestamp]

\* ---------------------------------------------------- transaction store
\* The column values one upsert writes (the same in `update` and `create`).
TransactionRow(tx, id) ==
  [id |-> id,
   hash |-> tx.hash,
   blockNumber |-> tx.blockNumber,
   blockHash |-> tx.blockHash,
   transactionIndex |-> tx.transactionIndex,
   to |-> tx.to,
   value |-> ToDecimalString(tx.value),
   gasUsed |-> OrNull(tx.gasUsed),
   status |-> tx.status,
   contractAddress |-> tx.contractAddress,
   timestamp |-> OrNull(tx.timestamp)]

\* prisma.transaction.upsert({where: {hash}, update, create}): the row with
\* this hash is updated in place (its id kept), or a row with id newId is added.
Upsert(table, tx, newId) ==
  LET hit == {i \in 1..Len(table) : table[i].hash = tx.hash}
  IN IF hit = {} THEN Append(table, TransactionRow(tx, newId))
     ELSE [i \in 1..Len(table) |->
             IF i \in hit THEN TransactionRow(tx, table[i].id) ELSE table[i]]

RECURSIVE UpsertAll(_, _, _)
UpsertAll(table, txs, newId) ==
  IF txs = <<>> THEN table
  ELSE LET t1 == Upsert(table, Head(txs), newId)
       IN UpsertAll(t1, Tail(txs), newId + (Len(t1) - Len(table)))

\* A variant that commits the upserts made before the failing one.
IngestTransactionsNoRollback(table, txs, newId, failAt) ==
  IF failAt = 0 THEN [ok |-> TRUE, table |-> UpsertAll(table, txs, newId)]
  ELSE [ok |-> FALSE, table |-> UpsertAll(table, SubSeq(txs, 1, failAt - 1), newId)]

\* A variant that does not wait for the batch: it reports success while
\* nothing is committed yet.
IngestTransactionsNotAwaited(table, txs, newId, failAt) ==
  [ok |-> TRUE, table |-> table]

\* ingestTransactions: prisma.$transaction([...upserts]).  failAt = 0: every
\* upsert succeeds and the batch commits; failAt = k: the k-th upsert fails,
\* the transaction rolls back and the error propagates.
ingestTransactions(table, txs, newId, failAt) ==
  LET applied == IF failAt = 0 THEN txs ELSE SubSeq(txs, 1, failAt - 1)
      work == UpsertAll(table, applied, newId)
  IN IF failAt = 0 THEN [ok |-> TRUE, table |-> work]
     ELSE [ok |-> FALSE, table |-> table]

\* ingestTransaction, lines 44-92: one prisma.transaction.upsert outside any
\* $transaction.  dbError: the upsert rejects; the error is logged and
\* rethrown and the table is as it was.
ingestTransaction(table, tx, newId, dbError) ==
  IF dbError THEN [ok |-> FALSE, table |-> table]
  ELSE [ok |-> TRUE, table |-> Upsert(table, tx, newId)]

\* ------------------------------------------------------ stablecoin store
\* A row of the stablecoins table as prisma.stablecoin.create leaves it: the
\* counters take the column defaults (0 and '0').
StablecoinRow(address, blockNumber, blockTimestamp) ==
  [address |-> Lower(address),
   firstSeenBlock |-> Some(blockNumber),
   firstSeenTimestamp |-> OrNull(blockTimestamp),
   transferCount |-> 0,
   transferVolume |-> <<"0">>,
   feePaymentCount |-> 0,
   feeVolume |-> <<"0">>,
   lastActivityBlock |-> Null]

HasAddress(table, address) == \E i \in 1..Len(table) : table[i].address = address

\* isAlreadyKnown: findUnique({where: {address: address.toLowerCase()}})
isAlreadyKnown(table, address) == HasAddress(table, Lower(address))

\* A variant that writes the row over an existing one (an upsert).
CreateStablecoinOverwrite(table, address, blockNumber, blockTimestamp) ==
  IF HasAddress(table, Lower(address))
  THEN [code |-> "ok",
        table |-> [i \in 1..Len(table) |->
                     IF table[i].address = Lower(address)
                     THEN [table[i] EXCEPT
                             !.firstSeenBlock = Some(blockNumber),
                             !.firstSeenTimestamp = OrNull(blockTimestamp)]
                     ELSE table[i]]]
  ELSE [code |-> "ok",
        table |-> Append(table, StablecoinRow(address, blockNumber, blockTimestamp))]

\* prisma.stablecoin.create under the unique index stablecoins_address_key:
\* P2002 and no change when the address is present.
CreateStablecoin(table, address, blockNumber, blockTimestamp) ==
  IF HasAddress(table, Lower(address))
  THEN [code |-> "P2002", table |-> table]
  ELSE [code |-> "ok",
        table |-> Append(table, StablecoinRow(address, blockNumber, blockTimestamp))]

\* A variant that rethrows the unique-constraint error as well.
IngestStablecoinRethrow(table, address, blockNumber, blockTimestamp, dbError) ==
  IF dbError THEN [threw |-> TRUE, inserted |-> FALSE, table |-> table]
  ELSE LET r == CreateStablecoin(table, address, blockNumber, blockTimestamp)
       IN [threw |-> r.code # "ok", inserted |-> r.code = "ok", table |-> r.table]

\* ingestStablecoin: P2002 is swallowed, any other store error is rethrown.
\* dbError: the store fails for another reason.
ingestStablecoin(table, address, blockNumber, blockTimestamp, dbError) ==
  IF dbError THEN [threw |-> TRUE, inserted |-> FALSE, table |-> table]
  ELSE LET r == CreateStablecoin(table, address, blockNumber, blockTimestamp)
       IN [threw |-> FALSE, inserted |-> r.code = "ok", table |-> r.table]

\* ---------------------------------------------------- stablecoin detector
MinBytecodeLength == 3
BatchSize == 10

\* The 0x-prefixed hex string getCode returns for `bytes` bytes of code.
CodeStringLength(bytes) == 2 + 2 * bytes

\* A variant with the threshold one byte lower.
IsContractOffByOne(account) ==
  IF account.code = Null \/ CodeStringLength(Val(account.code)) = 2 THEN FALSE
  ELSE (CodeStringLength(Val(account.code)) - 2) \div 2 >= MinBytecodeLength - 1

\* isContract: account.code is Null when getCode fails or returns nothing,
\* else Some(number of bytes).
isContract(account) ==
  IF account.code = Null \/ CodeStringLength(Val(account.code)) = 2 THEN FALSE
  ELSE (CodeStringLength(Val(account.code)) - 2) \div 2 >= MinBytecodeLength

\* isTIP20Token: each readContract resolves to a value (TRUE) or, caught, to
\* null (FALSE).
isTIP20Token(account) == account.decimals /\ account.symbol /\ account.totalSupply

\* checkAndIngestAddress up to the insert (lines 145-165): "false" when it
\* returns false, "insert" when it goes on to ingestStablecoin.
CheckAddress(table, accounts, address) ==
  LET normalizedAddress == Lower(address)
  IN IF normalizedAddress = ZeroAddress THEN "false"
     ELSE IF isAlreadyKnown(table, normalizedAddress) THEN "false"
     ELSE IF ~isContract(accounts[normalizedAddress]) THEN "false"
     ELSE IF ~isTIP20Token(accounts[normalizedAddress]) THEN "false"
     ELSE "insert"

\* Array.from(new Set(addresses.map(lower))).filter(not zero): first
\* occurrences, in order.
RECURSIVE Dedup(_, _)
Dedup(addresses, seen) ==
  IF addresses = <<>> THEN <<>>
  ELSE LET a == Lower(Head(addresses))
       IN IF a \in seen THEN Dedup(Tail(addresses), seen)
          ELSE <<a>> \o Dedup(Tail(addresses), seen \cup {a})

UniqueAddresses(addresses) ==
  SelectSeq(Dedup(addresses, {}), LAMBDA a : a # ZeroAddress)

\* ------------------------------------------- stablecoin statistics
\* parseReceipt (lines 233-271): feeToken lowercased, log addresses
\* lowercased; gasUsed / effectiveGasPrice kept when defined.
parseReceipt(raw) ==
  [feeToken |-> IF raw.feeToken # Null THEN Some(Lower(Val(raw.feeToken))) ELSE Null,
   gasUsed |-> raw.gasUsed,
   effectiveGasPrice |-> raw.effectiveGasPrice,
   logs |-> [i \in 1..Len(raw.logs) |->
               [address |-> Lower(raw.logs[i].address),
                topics |-> raw.logs[i].topics,
                data |-> raw.logs[i].data]]]

\* extractTransferAmount: Null for data shorter than 66 characters, else the
\* value of the first 64 hex digits (BigInt throws on a non-hex digit, caught).
extractTransferAmount(log) ==
  IF log.data = <<>> \/ log.data = <<"0", "x">> \/ Len(log.data) < 66 THEN Null
  ELSE LET amountHex == SubSeq(log.data, 3, 66)
       IN IF AllHex(amountHex) THEN Some(DigitsValue(amountHex, 16)) ELSE Null

\* isTransferEvent
isTransferEvent(log, stablecoinAddresses) ==
  /\ Lower(log.address) \in stablecoinAddresses
  /\ Len(log.topics) > 0
  /\ Lower(log.topics[1]) = Lower(TRANSFER_EVENT_SIGNATURE)

ZeroStats(address) ==
  [address |-> address, transferCount |-> 0, transferVolume |-> 0,
   feePaymentCount |-> 0, feeVolume |-> 0]

\* Lines 360-370: one log.
ProcessLog(stats, log, stablecoinAddresses) ==
  IF isTransferEvent(log, stablecoinAddresses) THEN
    LET stablecoinAddress == Lower(log.address)
        amount == extractTransferAmount(log)
    IN IF amount # Null /\ stablecoinAddress \in DOMAIN stats
       THEN [stats EXCEPT
               ![stablecoinAddress].transferCount = @ + 1,
               ![stablecoinAddress].transferVolume = @ + Val(amount)]
       ELSE stats
  ELSE stats

RECURSIVE ProcessLogs(_, _, _)
ProcessLogs(stats, logs, stablecoinAddresses) ==
  IF logs = <<>> THEN stats
  ELSE ProcessLogs(ProcessLog(stats, Head(logs), stablecoinAddresses),
                   Tail(logs), stablecoinAddresses)

\* A variant that counts a fee payment only when its amount is known.
ProcessFeeCountedWithAmount(stats, receipt, stablecoinAddresses) ==
  IF receipt.feeToken # Null /\ Val(receipt.feeToken) \in stablecoinAddresses
     /\ Val(receipt.feeToken) \in DOMAIN stats
     /\ Truthy(receipt.gasUsed) /\ Truthy(receipt.effectiveGasPrice)
  THEN [stats EXCEPT
          ![Val(receipt.feeToken)].feePaymentCount = @ + 1,
          ![Val(receipt.feeToken)].feeVolume =
             @ + Val(receipt.gasUsed) * Val(receipt.effectiveGasPrice)]
  ELSE stats

\* Lines 373-386: the fee payment of one receipt.
ProcessFee(stats, receipt, stablecoinAddresses) ==
  IF receipt.feeToken # Null /\ Val(receipt.feeToken) \in stablecoinAddresses
     /\ Val(receipt.feeToken) \in DOMAIN stats
  THEN LET a == Val(receipt.feeToken)
           counted == [stats EXCEPT ![a].feePaymentCount = @ + 1]
       IN IF Truthy(receipt.gasUsed) /\ Truthy(receipt.effectiveGasPrice)
          THEN [counted EXCEPT
                  ![a].feeVolume = @ + Val(receipt.gasUsed) * Val(receipt.effectiveGasPrice)]
          ELSE counted
  ELSE stats

RECURSIVE ProcessReceipts(_, _, _)
ProcessReceipts(stats, receipts, stablecoinAddresses) ==
  IF receipts = <<>> THEN stats
  ELSE LET receipt == parseReceipt(Head(receipts))
           afterLogs == ProcessLogs(stats, receipt.logs, stablecoinAddresses)
       IN ProcessReceipts(ProcessFee(afterLogs, receipt, stablecoinAddresses),
                          Tail(receipts), stablecoinAddresses)

\* A variant that keeps the entries without activity.
CalculateStablecoinStatsUnpruned(table, receipts) ==
  LET stablecoinAddresses == {Lower(table[i].address) : i \in 1..Len(table)}
  IN ProcessReceipts([a \in stablecoinAddresses |-> ZeroStats(a)],
                     receipts, stablecoinAddresses)

\* calculateStablecoinStats(receipts, blockNumber) against the stablecoins
\* table read by findMany: a function from the addresses with activity to
\* their deltas.
calculateStablecoinStats(table, receipts) ==
  LET stablecoinAddresses == {Lower(table[i].address) : i \in 1..Len(table)}
      all == ProcessReceipts([a \in stablecoinAddresses |-> ZeroStats(a)],
                             receipts, stablecoinAddresses)
      active == {a \in stablecoinAddresses :
                   ~(all[a].transferCount = 0 /\ all[a].feePaymentCount = 0)}
  IN [a \in active |-> all[a]]

\* updateStablecoinStats, lines 417-430: the volumes read by findMany for the
\* addresses of stats; an address without a row has no entry.
ReadCurrentStats(table, stats) ==
  [a \in {b \in DOMAIN stats : HasAddress(table, b)} |->
     LET i == CHOOSE j \in 1..Len(table) : table[j].address = a
     IN [transferVolume |-> table[i].transferVolume, feeVolume |-> table[i].feeVolume]]

\* A variant that leaves a row alone when its lastActivityBlock already is the
\* block being aggregated.
UpdateRowOncePerBlock(row, stat, currentMap, blockNumber) ==
  IF row.lastActivityBlock = Some(blockNumber) THEN row
  ELSE [row EXCEPT
          !.transferCount = @ + stat.transferCount,
          !.transferVolume = ToDecimalString(
             ParseBigInt(IF stat.address \in DOMAIN currentMap
                         THEN currentMap[stat.address].transferVolume ELSE <<"0">>)
             + stat.transferVolume),
          !.feePaymentCount = @ + stat.feePaymentCount,
          !.feeVolume = ToDecimalString(
             ParseBigInt(IF stat.address \in DOMAIN currentMap
                         THEN currentMap[stat.address].feeVolume ELSE <<"0">>)
             + stat.feeVolume),
          !.lastActivityBlock = Some(blockNumber)]

\* A variant that adds the volume deltas to the row's volumes as they are when
\* the update runs.
UpdateRowVolumesIncremented(row, stat, currentMap, blockNumber) ==
  [row EXCEPT
     !.transferCount = @ + stat.transferCount,
     !.transferVolume = ToDecimalString(ParseBigInt(@) + stat.transferVolume),
     !.feePaymentCount = @ + stat.feePaymentCount,
     !.feeVolume = ToDecimalString(ParseBigInt(@) + stat.feeVolume),
     !.lastActivityBlock = Some(blockNumber)]

\* A variant that assigns the count deltas instead of incrementing by them.
UpdateRowCountsAssigned(row, stat, currentMap, blockNumber) ==
  [row EXCEPT
     !.transferCount = stat.transferCount,
     !.transferVolume = ToDecimalString(
        ParseBigInt(IF stat.address \in DOMAIN currentMap
                    THEN currentMap[stat.address].transferVolume ELSE <<"0">>)
        + stat.transferVolume),
     !.feePaymentCount = stat.feePaymentCount,
     !.feeVolume = ToDecimalString(
        ParseBigInt(IF stat.address \in DOMAIN currentMap
                    THEN currentMap[stat.address].feeVolume ELSE <<"0">>)
        + stat.feeVolume),
     !.lastActivityBlock = Some(blockNumber)]

\* Lines 433-450: the update of one address, from the volumes read earlier
\* (currentMap) and the row as it is when the update runs.
UpdateRow(row, stat, currentMap, blockNumber) ==
  LET currentTransferVolume ==
        ParseBigInt(IF stat.address \in DOMAIN currentMap
                    THEN currentMap[stat.address].transferVolume ELSE <<"0">>)
      currentFeeVolume ==
        ParseBigInt(IF stat.address \in DOMAIN currentMap
                    THEN currentMap[stat.address].feeVolume ELSE <<"0">>)
  IN [row EXCEPT
        !.transferCount = @ + stat.transferCount,
        !.transferVolume = ToDecimalString(currentTransferVolume + stat.transferVolume),
        !.feePaymentCount = @ + stat.feePaymentCount,
        !.feeVolume = ToDecimalString(currentFeeVolume + stat.feeVolume),
        !.lastActivityBlock = Some(blockNumber)]

\* A variant that runs the updates outside a transaction: the rows that exist
\* are updated although another update fails.
UpdateStablecoinStatsNoRollback(table, stats, currentMap, blockNumber, failed) ==
  [ok |-> ~(failed \/ \E a \in DOMAIN stats : ~HasAddress(table, a)),
   table |-> [i \in 1..Len(table) |->
                IF table[i].address \in DOMAIN stats
                THEN [table[i] EXCEPT
                        !.transferCount = @ + stats[table[i].address].transferCount,
                        !.feePaymentCount = @ + stats[table[i].address].feePaymentCount,
                        !.lastActivityBlock = Some(blockNumber)]
                ELSE table[i]]]

\* Lines 452-453: prisma.$transaction(updates).  failed: one update fails (a
\* store error, or P2025 for an address without a row) and all roll back.
updateStablecoinStats(table, stats, currentMap, blockNumber, failed) ==
  IF failed \/ \E a \in DOMAIN stats : ~HasAddress(table, a)
  THEN [ok |-> FALSE, table |-> table]
  ELSE [ok |-> TRUE,
        table |-> [i \in 1..Len(table) |->
                     IF table[i].address \in DOMAIN stats
                     THEN UpdateRow(table[i], stats[table[i].address], currentMap, blockNumber)
                     ELSE table[i]]]

\* =================================================================== state
VARIABLES
  transactions,   \* the transactions table: rows in insertion order
  nextId,         \* the id the next inserted transaction row gets
  stablecoins,    \* the stablecoins table: rows in insertion order
  accounts,       \* chain: what getCode / readContract answer per address
  pc,             \* where each caller stands
  started,        \* ingestBlock calls started so far
  blk,            \* ingestBlock: the fetched block (Null before the fetch)
  receiptOk,      \* ingestBlock: per hash, whether its receipt fetch succeeded
  det,            \* detection call: blockNumber, blockTimestamp, caller
  cand,           \* detection call: uniqueAddresses
  chk,            \* detection call: per candidate, the state of its check
  batchStart,     \* detection call: the loop variable i
  ingestedCount,  \* detection call: ingestedCount
  stats,          \* aggregation: the mapping calculateStablecoinStats returned
  currentMap,     \* aggregation: the volumes updateStablecoinStats read
  result,         \* what the last call of each caller returned or threw
  trace,          \* history of the current call (what it attempted so far)
  firstRows,      \* per block number, the block's rows when its first
                  \* successful ingestBlock returned
  parse,          \* SpecParse: the identifier and what ingestBlock made of it
  call,           \* a function called on its own: its arguments and its result
  ledger,         \* SpecUpdate: per address, what the committed calls added
  sweep           \* SpecSweep: the state of cleanupExpiredTransactions

vars == <<transactions, nextId, stablecoins, accounts, pc, started, blk,
          receiptOk, det, cand, chk, batchStart, ingestedCount, stats,
          currentMap, result, trace, firstRows, parse, call, ledger, sweep>>

Procs == {"p1", "p2"}

\* Identifiers the callers of Spec pass to ingestBlock.
IngestIds == {<<"1">>, <<"2">>, <<"3">>, <<"4">>}

NoResult ==
  [kind |-> "none", message |-> "", blockNumber |-> <<>>, transactionsIngested |-> 0,
   count |-> 0]
NoTrace ==
  [persist |-> "none", failAt |-> 0, detect |-> FALSE, statsRun |-> FALSE,
   soft |-> FALSE, created |-> 0, after |-> FALSE, storeError |-> FALSE]
NoDet == [blockNumber |-> 0, blockTimestamp |-> Null, caller |-> "none"]
\* No function is called on its own, nothing is committed, no sweep runs.
NoCall == [fn |-> "none"]
NoLedger == <<>>
NoSweep == [pc |-> "idle"]
NoParse == [id |-> <<>>, done |-> FALSE, outcome |-> "", request |-> BlockRequest([outcome |-> ""])]

\* The accounts of the chain of Spec: 0xabcd is a token contract, 0xc0de has
\* two bytes of code.
MainAccounts ==
  [a \in {"0xabcd", "0xc0de"} |->
     IF a = "0xabcd"
     THEN [code |-> Some(5), decimals |-> TRUE, symbol |-> TRUE, totalSupply |-> TRUE]
     ELSE [code |-> Some(2), decimals |-> FALSE, symbol |-> FALSE, totalSupply |-> FALSE]]

InitLocals ==
  /\ blk = [p \in Procs |-> Null]
  /\ receiptOk = [p \in Procs |-> <<>>]
  /\ det = [p \in Procs |-> NoDet]
  /\ cand = [p \in Procs |-> <<>>]
  /\ chk = [p \in Procs |-> <<>>]
  /\ batchStart = [p \in Procs |-> 0]
  /\ ingestedCount = [p \in Procs |-> 0]
  /\ stats = [p \in Procs |-> <<>>]
  /\ currentMap = [p \in Procs |-> <<>>]
  /\ result = [p \in Procs |-> NoResult]
  /\ trace = [p \in Procs |-> NoTrace]

Init ==
  /\ transactions = <<>>
  /\ nextId = 1
  /\ stablecoins = <<>>
  /\ accounts = MainAccounts
  /\ pc = [p \in Procs |-> "idle"]
  /\ started = 0
  /\ InitLocals
  /\ firstRows = [n \in 1..Len(ChainBlocks) |-> Null]
  /\ parse = NoParse
  /\ call = NoCall
  /\ ledger = NoLedger
  /\ sweep = NoSweep

\* ---------------------------------------------------------- ingestBlock
BlockOf(p) == Val(blk[p])
HashesOf(p) == BlockOf(p).transactions

\* Lines 102-118: transactionsToIngest, from the fetched transactions and the
\* receipts (null where the receipt fetch failed).
TransactionsToIngest(block, ok) ==
  [i \in 1..Len(block.transactions) |->
     transformViemTransaction(
       ChainTransaction(block.transactions[i]),
       IF ok[i] THEN Some(ChainReceipt(block.transactions[i])) ELSE Null,
       OrNull(Some(block.timestamp)))]

\* Lines 125-139: contractAddress, then to, of every transaction.
RECURSIVE ContractAddresses(_)
ContractAddresses(txs) ==
  IF txs = <<>> THEN <<>>
  ELSE LET tx == Head(txs)
       IN (IF tx.contractAddress # Null THEN <<Val(tx.contractAddress)>> ELSE <<>>)
          \o (IF tx.to # Null THEN <<Val(tx.to)>> ELSE <<>>)
          \o ContractAddresses(Tail(txs))

\* A variant that drops every receipt of the block when one fetch failed.
ValidReceiptsAllOrNone(block, ok) ==
  IF \A i \in 1..Len(block.transactions) : ok[i]
  THEN [k \in 1..Len(block.transactions) |-> ChainReceipt(block.transactions[k])]
  ELSE <<>>

\* Line 161: receipts.filter(r => r !== null)
ValidReceipts(block, ok) ==
  LET idx == SelectSeq([i \in 1..Len(block.transactions) |-> i], LAMBDA i : ok[i])
  IN [k \in 1..Len(idx) |-> ChainReceipt(block.transactions[idx[k]])]

\* The rows of a block's hashes, without the store's own id column.
RowsOfBlock(table, n) ==
  {[hash |-> r.hash, blockNumber |-> r.blockNumber, blockHash |-> r.blockHash,
    transactionIndex |-> r.transactionIndex, to |-> r.to, value |-> r.value,
    gasUsed |-> r.gasUsed, status |-> r.status,
    contractAddress |-> r.contractAddress, timestamp |-> r.timestamp] :
     r \in {table[i] : i \in {j \in 1..Len(table) :
                                \E k \in 1..Len(ChainBlocks[n].transactions) :
                                  ChainBlocks[n].transactions[k] = table[j].hash}}}

Summary(block, n) ==
  [kind |-> "success", message |-> "", blockNumber |-> ToDecimalString(block.number),
   transactionsIngested |-> n, count |-> 0]
Failure(message) ==
  [kind |-> "error", message |-> message, blockNumber |-> <<>>,
   transactionsIngested |-> 0, count |-> 0]

ClearLocals(p) ==
  /\ receiptOk' = [receiptOk EXCEPT ![p] = <<>>]
  /\ det' = [det EXCEPT ![p] = NoDet]
  /\ cand' = [cand EXCEPT ![p] = <<>>]
  /\ chk' = [chk EXCEPT ![p] = <<>>]
  /\ batchStart' = [batchStart EXCEPT ![p] = 0]
  /\ ingestedCount' = [ingestedCount EXCEPT ![p] = 0]
  /\ stats' = [stats EXCEPT ![p] = <<>>]
  /\ currentMap' = [currentMap EXCEPT ![p] = <<>>]

\* ingestBlock returns its summary (lines 91-97 and 174-180).
Return(p, block, n) ==
  /\ pc' = [pc EXCEPT ![p] = "returned"]
  /\ result' = [result EXCEPT ![p] = Summary(block, n)]
  /\ firstRows' = IF n > 0 /\ firstRows[block.number] = Null
                  THEN [firstRows EXCEPT
                          ![block.number] = Some(RowsOfBlock(transactions', block.number))]
                  ELSE firstRows
  /\ ClearLocals(p)

\* ingestBlock throws.
Throw(p, message) ==
  /\ pc' = [pc EXCEPT ![p] = "threw"]
  /\ result' = [result EXCEPT ![p] = Failure(message)]
  /\ firstRows' = firstRows
  /\ ClearLocals(p)

\* Lines 39-118: parse the identifier, fetch the block, its transactions and
\* receipts.  txFails: some getTransaction rejects; ok: which receipt fetches
\* succeed.
IngestBlockFetch(p) ==
  /\ pc[p] \in {"idle", "returned", "threw"}
  /\ started < MaxCalls
  /\ started' = started + 1
  /\ \E blockId \in IngestIds, txFails \in BOOLEAN :
       LET parsed == ParseBlockId(blockId)
           req == BlockRequest(parsed)
           block == IF parsed.outcome = "ok" THEN GetBlock(req) ELSE Null
       IN /\ trace' = [trace EXCEPT ![p] =
                         [NoTrace EXCEPT !.after =
                            block # Null /\ firstRows[Val(block).number] # Null]]
          /\ blk' = [blk EXCEPT ![p] = block]
          /\ IF parsed.outcome # "ok" THEN Throw(p, parsed.outcome)
             ELSE IF block = Null THEN Throw(p, "Block not found")
             ELSE IF Val(block).transactions = <<>> THEN Return(p, Val(block), 0)
             ELSE IF txFails THEN Throw(p, "getTransaction")
             ELSE \E ok \in [1..Len(Val(block).transactions) -> BOOLEAN] :
                    /\ pc' = [pc EXCEPT ![p] = "persist"]
                    /\ receiptOk' = [receiptOk EXCEPT ![p] = ok]
                    /\ UNCHANGED <<det, cand, chk, batchStart, ingestedCount,
                                   stats, currentMap, result, firstRows>>
  /\ UNCHANGED <<transactions, nextId, stablecoins, accounts, parse, call, ledger, sweep>>

\* A variant that logs a failed batch upsert and goes on.
AfterPersistSwallowed(ok, candidates) ==
  IF Len(candidates) > 0 THEN "detect" ELSE "stats"

\* Where ingestBlock goes once the batch upsert has settled: on to detection
\* and statistics, or out with the error.
AfterPersist(ok, candidates) ==
  IF ~ok THEN "threw" ELSE IF Len(candidates) > 0 THEN "detect" ELSE "stats"

\* Lines 120-152: the batch upsert, then the candidates handed to
\* detectAndIngestStablecoins (checkAndIngestAddresses runs up to its first
\* await: lines 185-191).
IngestBlockPersist(p) ==
  /\ pc[p] = "persist"
  /\ \E failAt \in 0..Len(HashesOf(p)) :
       LET txs == TransactionsToIngest(BlockOf(p), receiptOk[p])
           r == ingestTransactions(transactions, txs, nextId, failAt)
           unique == UniqueAddresses(ContractAddresses(txs))
           to == AfterPersist(r.ok, unique)
       IN /\ transactions' = r.table
          /\ nextId' = nextId + (Len(r.table) - Len(transactions))
          /\ trace' = [trace EXCEPT ![p].persist = IF r.ok THEN "ok" ELSE "failed",
                                    ![p].failAt = failAt]
          /\ IF to = "threw" THEN Throw(p, "ingestTransactions")
             ELSE /\ pc' = [pc EXCEPT ![p] = to]
                  /\ det' = [det EXCEPT ![p] =
                               [blockNumber |-> BlockOf(p).number,
                                blockTimestamp |-> OrNull(Some(BlockOf(p).timestamp)),
                                caller |-> "ingestBlock"]]
                  /\ cand' = [cand EXCEPT ![p] = unique]
                  /\ chk' = [chk EXCEPT ![p] = [i \in 1..Len(unique) |-> "todo"]]
                  /\ UNCHANGED <<receiptOk, batchStart, ingestedCount, stats,
                                 currentMap, result, firstRows>>
  /\ UNCHANGED <<stablecoins, accounts, started, blk, parse, call, ledger, sweep>>

\* ------------------------------------------------ checkAndIngestAddresses
\* A variant without batches: every candidate from the loop variable on.
CurrentBatchUnbounded(p) ==
  {i \in 1..Len(cand[p]) : batchStart[p] < i}

\* The candidates of the batch the loop of lines 197-211 is at.
CurrentBatch(p) ==
  {i \in 1..Len(cand[p]) : batchStart[p] < i /\ i <= batchStart[p] + BatchSize}

Settled == {"true", "false", "rejected"}

\* checkAndIngestAddress, lines 145-165, for candidate i of the batch: the
\* store lookup and the chain calls.  dbError: findUnique rejects.
DetectCheck(p, i) ==
  /\ pc[p] = "detect"
  /\ i \in CurrentBatch(p)
  /\ chk[p][i] = "todo"
  /\ \E dbError \in BOOLEAN :
       LET rejects == dbError /\ Lower(cand[p][i]) # ZeroAddress
       IN /\ chk' = [chk EXCEPT ![p][i] =
                      IF rejects THEN "rejected"
                      ELSE CheckAddress(stablecoins, accounts, cand[p][i])]
          /\ trace' = [trace EXCEPT ![p].detect = TRUE,
                                    ![p].storeError = @ \/ rejects]
  /\ UNCHANGED <<transactions, nextId, stablecoins, accounts, pc, started, blk,
                 receiptOk, det, cand, batchStart, ingestedCount, stats,
                 currentMap, result, firstRows, parse, call, ledger, sweep>>

\* checkAndIngestAddress, lines 167-169: ingestStablecoin, then `return true`.
DetectInsert(p, i) ==
  /\ pc[p] = "detect"
  /\ i \in CurrentBatch(p)
  /\ chk[p][i] = "insert"
  /\ \E dbError \in BOOLEAN :
       LET r == ingestStablecoin(stablecoins, cand[p][i], det[p].blockNumber,
                                 det[p].blockTimestamp, dbError)
       IN /\ stablecoins' = r.table
          /\ chk' = [chk EXCEPT ![p][i] = IF r.threw THEN "rejected" ELSE "true"]
          /\ trace' = [trace EXCEPT ![p].created = @ + (IF r.inserted THEN 1 ELSE 0),
                                    ![p].storeError = @ \/ dbError]
  /\ UNCHANGED <<transactions, nextId, accounts, pc, started, blk, receiptOk,
                 det, cand, batchStart, ingestedCount, stats, currentMap,
                 result, firstRows, parse, call, ledger, sweep>>

\* A variant with Promise.all in place of Promise.allSettled: a rejected
\* check of the batch rejects the call.
DetectSettleRejecting(p) ==
  /\ pc[p] = "detect"
  /\ \A i \in CurrentBatch(p) : chk[p][i] \in Settled
  /\ LET count == ingestedCount[p]
                    + Cardinality({i \in CurrentBatch(p) : chk[p][i] = "true"})
     IN IF \E i \in CurrentBatch(p) : chk[p][i] = "rejected"
        THEN /\ pc' = [pc EXCEPT ![p] = "threw"]
             /\ result' = [result EXCEPT ![p] = Failure("checkAndIngestAddress")]
             /\ UNCHANGED <<batchStart, ingestedCount, chk>>
        ELSE IF batchStart[p] + BatchSize < Len(cand[p])
        THEN /\ batchStart' = [batchStart EXCEPT ![p] = @ + BatchSize]
             /\ ingestedCount' = [ingestedCount EXCEPT ![p] = count]
             /\ UNCHANGED <<pc, result, chk>>
        ELSE /\ ingestedCount' = [ingestedCount EXCEPT ![p] = count]
             /\ pc' = [pc EXCEPT ![p] =
                         IF det[p].caller = "ingestBlock" THEN "stats" ELSE "returned"]
             /\ result' = [result EXCEPT ![p] =
                             IF det[p].caller = "ingestBlock" THEN @
                             ELSE [NoResult EXCEPT !.kind = "count", !.count = count]]
             /\ UNCHANGED <<batchStart, chk>>
  /\ UNCHANGED <<transactions, nextId, stablecoins, accounts, started, blk,
                 receiptOk, det, cand, stats, currentMap, trace, firstRows, parse, call, ledger, sweep>>

\* Lines 199-213: Promise.allSettled of the batch has resolved; count the
\* fulfilled `true` results, then start the next batch or return the count.
DetectSettle(p) ==
  /\ pc[p] = "detect"
  /\ \A i \in CurrentBatch(p) : chk[p][i] \in Settled
  /\ LET count == ingestedCount[p]
                    + Cardinality({i \in CurrentBatch(p) : chk[p][i] = "true"})
     IN IF batchStart[p] + BatchSize < Len(cand[p])
        THEN /\ batchStart' = [batchStart EXCEPT ![p] = @ + BatchSize]
             /\ ingestedCount' = [ingestedCount EXCEPT ![p] = count]
             /\ UNCHANGED <<pc, result, chk>>
        ELSE /\ ingestedCount' = [ingestedCount EXCEPT ![p] = count]
             /\ pc' = [pc EXCEPT ![p] =
                         IF det[p].caller = "ingestBlock" THEN "stats" ELSE "returned"]
             /\ result' = [result EXCEPT ![p] =
                             IF det[p].caller = "ingestBlock" THEN @
                             ELSE [NoResult EXCEPT !.kind = "count", !.count = count]]
             /\ UNCHANGED <<batchStart, chk>>
  /\ UNCHANGED <<transactions, nextId, stablecoins, accounts, started, blk,
                 receiptOk, det, cand, stats, currentMap, trace, firstRows, parse, call, ledger, sweep>>

\* ------------------------------------ ingestBlock: statistics (159-180)
\* A variant without the try/catch: the error propagates.
OnStatsErrorPropagated == "threw"

\* What ingestBlock does with an error thrown inside the try block of lines
\* 163-171: it is logged and the summary is returned.
OnStatsError == "returned"

\* The outcome of a step of the statistics stage: the stage goes on (pc
\* `next`), or ingestBlock ends.
StatsStep(p, failed, finished, next) ==
  IF failed /\ OnStatsError = "threw"
  THEN /\ trace' = [trace EXCEPT ![p].statsRun = TRUE]
       /\ Throw(p, "stablecoin stats")
  ELSE IF failed \/ finished
  THEN /\ trace' = [trace EXCEPT ![p].statsRun = TRUE, ![p].soft = @ \/ failed]
       /\ Return(p, BlockOf(p), Len(HashesOf(p)))
  ELSE /\ trace' = [trace EXCEPT ![p].statsRun = TRUE]
       /\ pc' = [pc EXCEPT ![p] = next]
       /\ UNCHANGED <<receiptOk, det, cand, chk, batchStart, ingestedCount,
                      result, firstRows>>

\* Lines 161-165: calculateStablecoinStats over the non-null receipts.
\* dbError: its findMany rejects.
IngestBlockCalculate(p) ==
  /\ pc[p] = "stats"
  /\ UNCHANGED <<transactions, nextId, stablecoins, accounts, started, blk, parse, call, ledger, sweep>>
  /\ LET valid == ValidReceipts(BlockOf(p), receiptOk[p])
     IN IF Len(valid) = 0
        THEN /\ UNCHANGED trace
             /\ Return(p, BlockOf(p), Len(HashesOf(p)))
        ELSE \E dbError \in BOOLEAN :
               LET st == calculateStablecoinStats(stablecoins, valid)
               IN /\ StatsStep(p, dbError, DOMAIN st = {}, "update")
                  /\ IF dbError \/ DOMAIN st = {} THEN TRUE
                     ELSE /\ stats' = [stats EXCEPT ![p] = st]
                          /\ UNCHANGED currentMap

\* updateStablecoinStats, lines 417-430: read the current volumes.
\* dbError: findMany rejects.
UpdateRead(p) ==
  /\ pc[p] = "update"
  /\ UNCHANGED <<transactions, nextId, stablecoins, accounts, started, blk, parse, call, ledger, sweep>>
  /\ \E dbError \in BOOLEAN :
       /\ StatsStep(p, dbError, FALSE, "commit")
       /\ IF dbError THEN TRUE
          ELSE /\ currentMap' = [currentMap EXCEPT ![p] =
                                   ReadCurrentStats(stablecoins, stats[p])]
               /\ UNCHANGED stats

\* updateStablecoinStats, lines 433-453: the updates, in one transaction.
UpdateCommit(p) ==
  /\ pc[p] = "commit"
  /\ UNCHANGED <<transactions, nextId, accounts, started, blk, parse, call, ledger, sweep>>
  /\ \E dbError \in BOOLEAN :
       LET r == updateStablecoinStats(stablecoins, stats[p], currentMap[p],
                                      BlockOf(p).number, dbError)
       IN /\ stablecoins' = r.table
          /\ StatsStep(p, ~r.ok, TRUE, "returned")

\* The record a caller of ingestTransaction builds for hash h as the
\* documentation shows (part_001 lines 53-65): the transaction, its receipt and
\* the timestamp of the receipt's block.
SingleTransaction(h) ==
  transformViemTransaction(
    ChainTransaction(h), Some(ChainReceipt(h)),
    Some(ChainBlocks[ChainReceipt(h).blockNumber].timestamp))

\* A call of ingestTransaction next to the ingestBlock calls; it counts as one
\* of the MaxCalls calls.
IngestTransactionCall ==
  /\ started < MaxCalls
  /\ started' = started + 1
  /\ \E h \in TxHashes, dbError \in BOOLEAN :
       LET r == ingestTransaction(transactions, SingleTransaction(h), nextId, dbError)
       IN /\ transactions' = r.table
          /\ nextId' = nextId + (Len(r.table) - Len(transactions))
  /\ UNCHANGED <<stablecoins, accounts, pc, blk, receiptOk, det, cand, chk,
                 batchStart, ingestedCount, stats, currentMap, result, trace,
                 firstRows, parse, call, ledger, sweep>>

Next ==
  \/ \E p \in Procs :
       \/ IngestBlockFetch(p)
       \/ IngestBlockPersist(p)
       \/ \E i \in 1..Len(cand[p]) : DetectCheck(p, i)
       \/ \E i \in 1..Len(cand[p]) : DetectInsert(p, i)
       \/ DetectSettle(p)
       \/ IngestBlockCalculate(p)
       \/ UpdateRead(p)
       \/ UpdateCommit(p)
  \/ IngestTransactionCall

Spec == Init /\ [][Next]_vars

\* ------------------- SpecDetect: callers of checkAndIngestAddresses
\* The address arrays the callers pass.
AddressLists ==
  {<<>>, <<"0xAbCd">>, <<"0xabcd", "0xAbCd">>, <<ZeroAddress, "0xC0DE">>,
   <<"0xC0DE", "0xabcd">>}

\* detectAndIngestStablecoins / checkAndIngestAddresses, lines 179-194: the
\* addresses are normalised and deduplicated; an empty list returns 0.
DetectStart(p) ==
  /\ pc[p] \in {"idle", "returned"}
  /\ started < MaxCalls
  /\ started' = started + 1
  /\ \E addresses \in AddressLists, n \in 1..Len(ChainBlocks) :
       LET unique == UniqueAddresses(addresses)
       IN /\ det' = [det EXCEPT ![p] =
                       [blockNumber |-> n,
                        blockTimestamp |-> Some(ChainBlocks[n].timestamp),
                        caller |-> "checkAndIngestAddresses"]]
          /\ cand' = [cand EXCEPT ![p] = unique]
          /\ chk' = [chk EXCEPT ![p] = [i \in 1..Len(unique) |-> "todo"]]
          /\ pc' = [pc EXCEPT ![p] = IF Len(unique) = 0 THEN "returned" ELSE "detect"]
          /\ result' = [result EXCEPT ![p] =
                          IF Len(unique) = 0
                          THEN [NoResult EXCEPT !.kind = "count", !.count = 0]
                          ELSE NoResult]
  /\ batchStart' = [batchStart EXCEPT ![p] = 0]
  /\ ingestedCount' = [ingestedCount EXCEPT ![p] = 0]
  /\ trace' = [trace EXCEPT ![p] = NoTrace]
  /\ UNCHANGED <<transactions, nextId, stablecoins, accounts, blk, receiptOk,
                 stats, currentMap, firstRows, parse, call, ledger, sweep>>

NextDetect ==
  \E p \in Procs :
    \/ DetectStart(p)
    \/ \E i \in 1..Len(cand[p]) : DetectCheck(p, i)
    \/ \E i \in 1..Len(cand[p]) : DetectInsert(p, i)
    \/ DetectSettle(p)

SpecDetect == Init /\ [][NextDetect]_vars

\* ----------------------- SpecCheck: one call of checkAndIngestAddress
\* The largest code size, in bytes, an account of SpecCheck has.
MaxCodeBytes == 4

\* The addresses passed to checkAndIngestAddress.
CheckAddresses == {ZeroAddress, "0xAbCd", "0xabcd", "0xC0DE"}

\* What getCode gives: nothing (or a failure), or 0..MaxCodeBytes bytes.
CodeSizes == {Null} \cup {Some(n) : n \in 0..MaxCodeBytes}

\* The stablecoins table the call finds.
CheckTables ==
  {<<>>,
   <<StablecoinRow("0xabcd", 1, Some(10))>>,
   <<StablecoinRow("0xc0de", 1, Some(10))>>}

\* One call checkAndIngestAddress(a, b, t) is at its first await; no other
\* call runs.
InitCheck ==
  /\ transactions = <<>>
  /\ nextId = 1
  /\ stablecoins \in CheckTables
  /\ \E code \in CodeSizes, d, s, ts \in BOOLEAN :
       accounts = [x \in {"0xabcd", "0xc0de"} |->
                     [code |-> code, decimals |-> d, symbol |-> s, totalSupply |-> ts]]
  /\ pc = [p \in Procs |-> IF p = "p1" THEN "detect" ELSE "idle"]
  /\ started = 1
  /\ blk = [p \in Procs |-> Null]
  /\ receiptOk = [p \in Procs |-> <<>>]
  /\ \E a \in CheckAddresses, b \in 1..Len(ChainBlocks), t \in {Null, Some(0), Some(10)} :
       /\ det = [p \in Procs |->
                   IF p = "p1"
                   THEN [blockNumber |-> b, blockTimestamp |-> t,
                         caller |-> "checkAndIngestAddress"]
                   ELSE NoDet]
       /\ cand = [p \in Procs |-> IF p = "p1" THEN <<a>> ELSE <<>>]
  /\ chk = [p \in Procs |-> IF p = "p1" THEN <<"todo">> ELSE <<>>]
  /\ batchStart = [p \in Procs |-> 0]
  /\ ingestedCount = [p \in Procs |-> 0]
  /\ stats = [p \in Procs |-> <<>>]
  /\ currentMap = [p \in Procs |-> <<>>]
  /\ result = [p \in Procs |-> NoResult]
  /\ trace = [p \in Procs |-> NoTrace]
  /\ firstRows = [n \in 1..Len(ChainBlocks) |-> Null]
  /\ parse = NoParse
  /\ call = NoCall
  /\ ledger = NoLedger
  /\ sweep = NoSweep

NextCheck ==
  \E p \in Procs :
    \/ DetectCheck(p, 1)
    \/ DetectInsert(p, 1)

SpecCheck == InitCheck /\ [][NextCheck]_vars

\* ------------------- SpecStats: one call of calculateStablecoinStats
\* Longest receipt list passed in SpecStats.
MaxReceipts == 2

\* A receipt with the given fee token, gas used and logs, the fields the
\* statistics do not read being those of a plain successful transaction.
StatsReceipt(feeToken, gasUsed, logs) ==
  [blockNumber |-> 1, blockHash |-> <<"0", "x", "b", "1">>,
   transactionIndex |-> 0, status |-> "success", gasUsed |-> gasUsed,
   contractAddress |-> Null, feeToken |-> feeToken,
   effectiveGasPrice |-> Some(2), logs |-> logs]

TransferLog(address, data) ==
  [address |-> address, topics |-> <<TRANSFER_EVENT_SIGNATURE>>, data |-> data]

\* The receipts the lists of SpecStats are made of:
\*  1 a Transfer of 2 by "0xAbCd", the fee paid in "0xAbCd";
\*  2 a Transfer by "0xabcd" with empty data ("0x");
\*  3 an Approval by "0xabcd" and a Transfer of 5 by "0xC0DE", the fee token
\*    "0xC0DE", no gas used;
\*  4 no log, no fee token;
\*  5 Transfers by "0xabcd" with 33 bytes of data (amount 3) and with a
\*    non-hexadecimal digit, and a log of "0xabcd" without topics;
\*  6 the fee paid in "0xAbCd", gasUsed missing;
\*  7 the fee paid in "0xdead", which is no stablecoin;
\*  8 the fee paid in "0xc0de", effectiveGasPrice missing.
StatsReceipts ==
  <<StatsReceipt(Some("0xAbCd"), Some(3),
                 <<TransferLog("0xAbCd", HexData(63, <<"2">>))>>),
    StatsReceipt(Null, Some(3), <<TransferLog("0xabcd", <<"0", "x">>)>>),
    StatsReceipt(Some("0xC0DE"), Some(0),
                 <<[address |-> "0xabcd", topics |-> <<ApprovalSignature>>,
                    data |-> HexData(63, <<"5">>)],
                   TransferLog("0xC0DE", HexData(63, <<"5">>))>>),
    StatsReceipt(Null, Some(3), <<>>),
    StatsReceipt(Null, Some(3),
                 <<TransferLog("0xabcd", HexData(63, <<"3", "f", "f">>)),
                   TransferLog("0xabcd", HexData(63, <<"g">>)),
                   [address |-> "0xabcd", topics |-> <<>>,
                    data |-> HexData(63, <<"7">>)]>>),
    StatsReceipt(Some("0xAbCd"), Null, <<>>),
    StatsReceipt(Some("0xdead"), Some(3), <<>>),
    [StatsReceipt(Some("0xc0de"), Some(4), <<>>) EXCEPT !.effectiveGasPrice = Null]>>

\* The receipt lists passed, as lists of indices into StatsReceipts.
ReceiptLists ==
  UNION {[1..n -> 1..Len(StatsReceipts)] : n \in 0..MaxReceipts}

\* The stablecoins table the call reads.
StatsTables ==
  {<<>>,
   <<StablecoinRow("0xabcd", 1, Some(10))>>,
   <<StablecoinRow("0xc0de", 1, Some(10))>>,
   <<StablecoinRow("0xabcd", 1, Some(10)), StablecoinRow("0xc0de", 2, Some(20))>>}

\* calculateStablecoinStats(receipts, blockNumber) has been called.
InitStats ==
  /\ transactions = <<>>
  /\ nextId = 1
  /\ stablecoins \in StatsTables
  /\ accounts = MainAccounts
  /\ pc = [p \in Procs |-> "idle"]
  /\ started = 0
  /\ InitLocals
  /\ firstRows = [n \in 1..Len(ChainBlocks) |-> Null]
  /\ parse = NoParse
  /\ \E l \in ReceiptLists :
       call = [fn |-> "calculateStablecoinStats",
               receipts |-> [i \in 1..Len(l) |-> StatsReceipts[l[i]]],
               done |-> FALSE, threw |-> FALSE, stats |-> <<>>]
  /\ ledger = NoLedger
  /\ sweep = NoSweep

\* The call runs: lines 327-399.  dbError: findMany rejects.
CalculateCall ==
  /\ call.fn = "calculateStablecoinStats"
  /\ ~call.done
  /\ \E dbError \in BOOLEAN :
       call' = [call EXCEPT
                  !.done = TRUE,
                  !.threw = dbError,
                  !.stats = IF dbError THEN <<>>
                            ELSE calculateStablecoinStats(stablecoins, call.receipts)]
  /\ UNCHANGED <<transactions, nextId, stablecoins, accounts, pc, started, blk,
                 receiptOk, det, cand, chk, batchStart, ingestedCount, stats,
                 currentMap, result, trace, firstRows, parse, ledger, sweep>>

NextStats == CalculateCall

SpecStats == InitStats /\ [][NextStats]_vars

\* ----------------- SpecUpdate: callers of updateStablecoinStats
\* Number of updateStablecoinStats calls started in one behaviour.
MaxUpdates == 3

\* One entry of a BlockStablecoinStats mapping.
StatOf(address, transferCount, transferVolume, feePaymentCount, feeVolume) ==
  [address |-> address, transferCount |-> transferCount,
   transferVolume |-> transferVolume, feePaymentCount |-> feePaymentCount,
   feeVolume |-> feeVolume]

\* The mappings the callers pass: the empty one, three over stablecoins that
\* have a row, and one naming an address that has none.
UpdateStats ==
  {<<>>,
   [a \in {"0xabcd"} |-> StatOf(a, 1, 2, 0, 0)],
   [a \in {"0xabcd"} |-> StatOf(a, 1, 3, 1, 1)],
   [a \in {"0xabcd", "0xc0de"} |->
      IF a = "0xabcd" THEN StatOf(a, 2, 4, 0, 0) ELSE StatOf(a, 0, 0, 1, 2)],
   [a \in {"0xabcd", "0xdead"} |->
      IF a = "0xabcd" THEN StatOf(a, 1, 1, 0, 0) ELSE StatOf(a, 1, 1, 0, 0)]}

\* The stablecoins table the calls start from: 0xabcd has been through the
\* aggregation of block 1, 0xc0de has its column defaults.
UpdateTable ==
  <<[StablecoinRow("0xabcd", 1, Some(10)) EXCEPT
       !.transferCount = 1, !.transferVolume = <<"5">>,
       !.feePaymentCount = 1, !.feeVolume = <<"1">>,
       !.lastActivityBlock = Some(1)],
    StablecoinRow("0xc0de", 1, Some(10))>>

\* History of the committed transactions, per row: the sums of the deltas
\* committed since the start, and the block numbers of all aggregation passes
\* that updated the row.
UpdateLedger ==
  [a \in {"0xabcd", "0xc0de"} |->
     [transferCount |-> 0, transferVolume |-> 0, feePaymentCount |-> 0,
      feeVolume |-> 0, blocks |-> IF a = "0xabcd" THEN {1} ELSE {}]]

Committed(led, st, blockNumber) ==
  [a \in DOMAIN led |->
     IF a \in DOMAIN st
     THEN [transferCount |-> led[a].transferCount + st[a].transferCount,
           transferVolume |-> led[a].transferVolume + st[a].transferVolume,
           feePaymentCount |-> led[a].feePaymentCount + st[a].feePaymentCount,
           feeVolume |-> led[a].feeVolume + st[a].feeVolume,
           blocks |-> led[a].blocks \cup {blockNumber}]
     ELSE led[a]]

InitUpdate ==
  /\ transactions = <<>>
  /\ nextId = 1
  /\ stablecoins = UpdateTable
  /\ accounts = MainAccounts
  /\ pc = [p \in Procs |-> "idle"]
  /\ started = 0
  /\ InitLocals
  /\ firstRows = [n \in 1..Len(ChainBlocks) |-> Null]
  /\ parse = NoParse
  /\ call = NoCall
  /\ ledger = UpdateLedger
  /\ sweep = NoSweep

Void == [NoResult EXCEPT !.kind = "void"]

\* updateStablecoinStats(stats, blockNumber), lines 409-430: the early return
\* for an empty mapping, else the findMany.  dbError: findMany rejects.
UpdateStatsRead(p) ==
  /\ pc[p] \in {"idle", "returned", "threw"}
  /\ started < MaxUpdates
  /\ started' = started + 1
  /\ \E st \in UpdateStats, n \in 1..Len(ChainBlocks), dbError \in BOOLEAN :
       /\ det' = [det EXCEPT ![p] =
                    [blockNumber |-> n, blockTimestamp |-> Null,
                     caller |-> "updateStablecoinStats"]]
       /\ stats' = [stats EXCEPT ![p] = st]
       /\ IF DOMAIN st = {}
          THEN /\ pc' = [pc EXCEPT ![p] = "returned"]
               /\ result' = [result EXCEPT ![p] = Void]
               /\ currentMap' = [currentMap EXCEPT ![p] = <<>>]
          ELSE IF dbError
          THEN /\ pc' = [pc EXCEPT ![p] = "threw"]
               /\ result' = [result EXCEPT ![p] = Failure("findMany")]
               /\ currentMap' = [currentMap EXCEPT ![p] = <<>>]
          ELSE /\ pc' = [pc EXCEPT ![p] = "commit"]
               /\ result' = [result EXCEPT ![p] = NoResult]
               /\ currentMap' = [currentMap EXCEPT ![p] =
                                   ReadCurrentStats(stablecoins, st)]
  /\ UNCHANGED <<transactions, nextId, stablecoins, accounts, blk, receiptOk,
                 cand, chk, batchStart, ingestedCount, trace, firstRows, parse,
                 call, ledger, sweep>>

\* Lines 433-453: the updates, in one transaction.  dbError: the store
\* rejects one of them.
UpdateStatsCommit(p) ==
  /\ pc[p] = "commit"
  /\ \E dbError \in BOOLEAN :
       LET r == updateStablecoinStats(stablecoins, stats[p], currentMap[p],
                                      det[p].blockNumber, dbError)
       IN /\ stablecoins' = r.table
          /\ pc' = [pc EXCEPT ![p] = IF r.ok THEN "returned" ELSE "threw"]
          /\ result' = [result EXCEPT ![p] =
                          IF r.ok THEN Void ELSE Failure("$transaction")]
          /\ ledger' = IF r.ok
                       THEN Committed(ledger, stats[p], det[p].blockNumber)
                       ELSE ledger
  /\ UNCHANGED <<transactions, nextId, accounts, started, blk, receiptOk, det,
                 cand, chk, batchStart, ingestedCount, stats, currentMap, trace,
                 firstRows, parse, call, sweep>>

NextUpdate ==
  \E p \in Procs :
    \/ UpdateStatsRead(p)
    \/ UpdateStatsCommit(p)

SpecUpdate == InitUpdate /\ [][NextUpdate]_vars

\* ------------- SpecSweep: cleanupExpiredTransactions and ingestion
\* Number of sweeps started, and of ingestTransactions calls made, in one
\* behaviour.
MaxSweeps == 2
MaxUpserts == 2

\* functions.ts line 139
SweepBatchSize == 1000

\* TRANSACTION_TTL_DAYS as parseInt reads it.
TtlDays == {-1, 0, 1, 2}
\* Date.now(), in milliseconds.
SweepNows == {86420500, 172830000}
MsPerDay == 24 * 60 * 60 * 1000

\* Lines 109-112: cutoffTimestamp, in seconds (Math.floor of the division).
CutoffTimestamp(now, ttlDays) == (now - ttlDays * MsPerDay) \div 1000

\* where: {timestamp: {not: null, lt: cutoffTimestamp}}
IsExpired(row, cutoff) == row.timestamp # Null /\ Val(row.timestamp) < cutoff

\* Lines 145-156: findMany({where, select: {id}, take: batchSize}).
FindExpiredIds(table, cutoff, take) ==
  LET hit == SelectSeq(table, LAMBDA row : IsExpired(row, cutoff))
      ids == [i \in 1..Len(hit) |-> hit[i].id]
  IN SubSeq(ids, 1, IF Len(ids) < take THEN Len(ids) ELSE take)

\* Lines 164-170: deleteMany({where: {id: {in: ids}}}).
DeleteByIds(table, ids) ==
  LET listed == {ids[k] : k \in 1..Len(ids)}
  IN SelectSeq(table, LAMBDA row : row.id \notin listed)

\* The timestamps of the blocks a transaction is ingested with.
SweepTimestamps == {Null, Some(10), Some(20), Some(30)}

\* What an ingestTransactions caller passes for hash h found in a block with
\* timestamp ts.
SweepTransaction(h, ts) ==
  transformViemTransaction(ChainTransaction(h), Some(ChainReceipt(h)), ts)

\* The transactions table the sweep starts from.
SweepTable ==
  <<TransactionRow(SweepTransaction("h1", Some(10)), 1),
    TransactionRow(SweepTransaction("h2", Some(20)), 2),
    TransactionRow(SweepTransaction("h3", Null), 3)>>

\* expiredWritten records (for the claims) that a row below the cutoff was
\* written by an ingestion since the sweep started.
IdleSweep ==
  [pc |-> "idle", ttlDays |-> 0, cutoff |-> 0, countToDelete |-> 0, ids |-> <<>>,
   totalDeleted |-> 0, runs |-> 0, expiredWritten |-> FALSE]

InitSweep ==
  /\ transactions = SweepTable
  /\ nextId = 4
  /\ stablecoins = <<>>
  /\ accounts = MainAccounts
  /\ pc = [p \in Procs |-> "idle"]
  /\ started = 0
  /\ InitLocals
  /\ firstRows = [n \in 1..Len(ChainBlocks) |-> Null]
  /\ parse = NoParse
  /\ call = NoCall
  /\ ledger = NoLedger
  /\ sweep = IdleSweep

\* Lines 96-137: the TTL test, the cutoff and the count.  dbError: count
\* rejects (the error is rethrown, lines 192-198).
SweepStart ==
  /\ sweep.pc \in {"idle", "skipped", "done", "threw"}
  /\ sweep.runs < MaxSweeps
  /\ \E ttlDays \in TtlDays, now \in SweepNows, dbError \in BOOLEAN :
       LET cutoff == CutoffTimestamp(now, ttlDays)
           countToDelete ==
             Len(SelectSeq(transactions, LAMBDA row : IsExpired(row, cutoff)))
           fresh == [IdleSweep EXCEPT !.ttlDays = ttlDays, !.runs = sweep.runs + 1]
       IN sweep' =
            IF ttlDays <= 0 THEN [fresh EXCEPT !.pc = "skipped"]
            ELSE IF dbError THEN [fresh EXCEPT !.pc = "threw", !.cutoff = cutoff]
            ELSE [fresh EXCEPT
                    !.pc = IF countToDelete = 0 THEN "done" ELSE "find",
                    !.cutoff = cutoff, !.countToDelete = countToDelete]
  /\ UNCHANGED <<transactions, nextId, stablecoins, accounts, pc, started, blk,
                 receiptOk, det, cand, chk, batchStart, ingestedCount, stats,
                 currentMap, result, trace, firstRows, parse, call, ledger>>

\* Lines 143-161: one findMany of the loop.  resolved: whether the query
\* resolves; a rejection is rethrown (lines 192-198).
SweepFind ==
  /\ sweep.pc = "find"
  /\ \E resolved \in BOOLEAN :
       LET ids == FindExpiredIds(transactions, sweep.cutoff, SweepBatchSize)
       IN sweep' =
            IF ~resolved THEN [sweep EXCEPT !.pc = "threw"]
            ELSE IF Len(ids) = 0 THEN [sweep EXCEPT !.pc = "done", !.ids = <<>>]
            ELSE [sweep EXCEPT !.pc = "delete", !.ids = ids]
  /\ UNCHANGED <<transactions, nextId, stablecoins, accounts, pc, started, blk,
                 receiptOk, det, cand, chk, batchStart, ingestedCount, stats,
                 currentMap, result, trace, firstRows, parse, call, ledger>>

\* A variant whose loop ends after the first batch that deleted something.
SweepDeleteOneBatch ==
  /\ sweep.pc = "delete"
  /\ \E resolved \in BOOLEAN :
       IF ~resolved
       THEN /\ sweep' = [sweep EXCEPT !.pc = "threw"]
            /\ UNCHANGED transactions
       ELSE LET after == DeleteByIds(transactions, sweep.ids)
            IN /\ transactions' = after
               /\ sweep' = [sweep EXCEPT
                              !.pc = "done",
                              !.totalDeleted = @ + (Len(transactions) - Len(after))]
  /\ UNCHANGED <<nextId, stablecoins, accounts, pc, started, blk, receiptOk,
                 det, cand, chk, batchStart, ingestedCount, stats, currentMap,
                 result, trace, firstRows, parse, call, ledger>>

\* Lines 164-180: the deleteMany of the batch found, and the loop test.
SweepDelete ==
  /\ sweep.pc = "delete"
  /\ \E resolved \in BOOLEAN :
       IF ~resolved
       THEN /\ sweep' = [sweep EXCEPT !.pc = "threw"]
            /\ UNCHANGED transactions
       ELSE LET after == DeleteByIds(transactions, sweep.ids)
            IN /\ transactions' = after
               /\ sweep' = [sweep EXCEPT
                              !.pc = IF Len(sweep.ids) < SweepBatchSize
                                     THEN "done" ELSE "find",
                              !.totalDeleted = @ + (Len(transactions) - Len(after))]
  /\ UNCHANGED <<nextId, stablecoins, accounts, pc, started, blk, receiptOk,
                 det, cand, chk, batchStart, ingestedCount, stats, currentMap,
                 result, trace, firstRows, parse, call, ledger>>

\* An ingestTransactions call made while the sweep runs: one transaction,
\* with the timestamp of the block it was found in.
SweepIngest ==
  /\ started < MaxUpserts
  /\ started' = started + 1
  /\ \E h \in TxHashes, ts \in SweepTimestamps, failAt \in 0..1 :
       LET r == ingestTransactions(transactions, <<SweepTransaction(h, ts)>>,
                                   nextId, failAt)
       IN /\ transactions' = r.table
          /\ nextId' = nextId + (Len(r.table) - Len(transactions))
  /\ UNCHANGED <<stablecoins, accounts, pc, blk, receiptOk, det, cand, chk,
                 batchStart, ingestedCount, stats, currentMap, result, trace,
                 firstRows, parse, call, ledger, sweep>>

\* An ingestTransaction call made while the sweep runs.
SweepIngestOne ==
  /\ started < MaxUpserts
  /\ started' = started + 1
  /\ \E h \in TxHashes, ts \in SweepTimestamps, dbError \in BOOLEAN :
       LET r == ingestTransaction(transactions, SweepTransaction(h, ts), nextId,
                                  dbError)
       IN /\ transactions' = r.table
          /\ nextId' = nextId + (Len(r.table) - Len(transactions))
  /\ UNCHANGED <<stablecoins, accounts, pc, blk, receiptOk, det, cand, chk,
                 batchStart, ingestedCount, stats, currentMap, result, trace,
                 firstRows, parse, call, ledger, sweep>>

NextSweep ==
  \/ SweepStart
  \/ SweepFind
  \/ SweepDelete
  \/ SweepIngest
  \/ SweepIngestOne

SpecSweep == InitSweep /\ [][NextSweep]_vars

\* ------------- SpecDrain: sweeps over tables of whole batches, run fairly
\* The largest number of full batches of expired rows a table starts with.
MaxBatches == 2

\* The numbers of expired rows a table starts with: around every multiple of
\* the batch size.
DrainSizes ==
  {n \in UNION {{k * SweepBatchSize - 1, k * SweepBatchSize, k * SweepBatchSize + 1} :
                  k \in 0..MaxBatches} : n >= 0}

\* A timestamp no cutoff of SweepStart reaches.
FreshTimestamp == Some(90000)

\* A table of n expired rows (timestamp 10), a row that is not expired and a
\* row without timestamp.
DrainTable(n) ==
  [i \in 1..n |->
     [TransactionRow(SweepTransaction("h1", Some(10)), i)
        EXCEPT !.hash = "x" \o ToString(i)]]
  \o <<TransactionRow(SweepTransaction("h2", FreshTimestamp), n + 1),
       TransactionRow(SweepTransaction("h3", Null), n + 2)>>

InitDrain ==
  /\ \E n \in DrainSizes :
       /\ transactions = DrainTable(n)
       /\ nextId = n + 3
  /\ stablecoins = <<>>
  /\ accounts = MainAccounts
  /\ pc = [p \in Procs |-> "idle"]
  /\ started = 0
  /\ InitLocals
  /\ firstRows = [n \in 1..Len(ChainBlocks) |-> Null]
  /\ parse = NoParse
  /\ call = NoCall
  /\ ledger = NoLedger
  /\ sweep = IdleSweep

\* Number of ingestion calls made in one behaviour of SpecDrain.
MaxWrites == 1

\* The timestamps of the rows ingested while a sweep is in its loop.
DrainTimestamps == {Null, Some(10), FreshTimestamp}

\* What the ingestion of one row while a sweep is in its loop leaves.
DrainWrite(r, tx) ==
  /\ transactions' = r.table
  /\ nextId' = nextId + (Len(r.table) - Len(transactions))
  /\ sweep' = [sweep EXCEPT !.expiredWritten =
                  @ \/ (r.ok /\ IsExpired(TransactionRow(tx, 0), sweep.cutoff))]
  /\ UNCHANGED <<stablecoins, accounts, pc, blk, receiptOk, det, cand, chk,
                 batchStart, ingestedCount, stats, currentMap, result, trace,
                 firstRows, parse, call, ledger>>

\* An ingestTransactions call of one transaction made while a sweep is in
\* its loop.
DrainIngest ==
  /\ sweep.pc \in {"find", "delete"}
  /\ started < MaxWrites
  /\ started' = started + 1
  /\ \E h \in TxHashes, ts \in DrainTimestamps, failAt \in 0..1 :
       LET tx == SweepTransaction(h, ts)
       IN DrainWrite(ingestTransactions(transactions, <<tx>>, nextId, failAt), tx)

\* An ingestTransaction call made while a sweep is in its loop.
DrainIngestOne ==
  /\ sweep.pc \in {"find", "delete"}
  /\ started < MaxWrites
  /\ started' = started + 1
  /\ \E h \in TxHashes, ts \in DrainTimestamps, dbError \in BOOLEAN :
       LET tx == SweepTransaction(h, ts)
       IN DrainWrite(ingestTransaction(transactions, tx, nextId, dbError), tx)

NextDrain ==
  \/ SweepStart
  \/ SweepFind
  \/ SweepDelete
  \/ DrainIngest
  \/ DrainIngestOne

\* The step function runs to its end: every awaited query settles.
SpecDrain ==
  InitDrain /\ [][NextDrain]_vars /\ WF_vars(SweepFind) /\ WF_vars(SweepDelete)

\* -------------- SpecBackoff: one call of calculateExponentialBackoff
\* rate-limit.ts lines 93 and 94: the default parameters.
BaseDelayMs == 1000
MaxDelayMs == 60000

\* Largest small attempt number drawn, and how far below 1 (in steps of
\* 2^-53) the largest values of Math.random() are drawn.
MaxAttempt == 12
MaxUlps == 6

\* Up to this attempt number 1000 * 2^attempt is held as an integer; from
\* OverflowAttempt on the product exceeds the largest double and is Infinity.
MaxExactAttempt == 20
OverflowAttempt == 1015

\* IEEE-754 doubles, as far as the function tells them apart.  A finite value
\* is int - below * u for a unit u so small that below * u < 1: an integer
\* when below = 0, else just under one.  "big" is a finite value above every
\* integer held here; "top" is the finite value 1000 * 2^1014, which is
\* 1.953125 * 2^1023: adding 2.4% or more to it exceeds the largest double.
Dbl(int, below) == [kind |-> "finite", int |-> int, below |-> below]
DblBig == [kind |-> "big", int |-> 0, below |-> 0]
DblTop == [kind |-> "top", int |-> 0, below |-> 0]
DblInf == [kind |-> "inf", int |-> 0, below |-> 0]
DblNaN == [kind |-> "nan", int |-> 0, below |-> 0]

\* Round a / b to the nearest integer, ties to even.
RoundHalfEven(a, b) ==
  LET q == a \div b
      r == a % b
  IN IF 2 * r > b \/ (2 * r = b /\ q % 2 = 1) THEN q + 1 ELSE q

\* Math.random(): m / 4 for m in 0..3, or 1 - k * 2^-53.
Randoms ==
  {[kind |-> "quarters", n |-> m] : m \in 0..3}
    \cup {[kind |-> "belowOne", n |-> k] : k \in 1..MaxUlps}
IsZero(rnd) == rnd.kind = "quarters" /\ rnd.n = 0

\* Line 98: baseDelayMs * Math.pow(2, attemptNumber).
ExponentialDelay(attemptNumber) ==
  IF attemptNumber >= OverflowAttempt THEN DblInf
  ELSE IF attemptNumber = OverflowAttempt - 1 THEN DblTop
  ELSE IF attemptNumber > MaxExactAttempt THEN DblBig
  ELSE Dbl(BaseDelayMs * 2 ^ attemptNumber, 0)

\* Line 99: Math.random() * 0.3 * exponentialDelay, with the double nearest to
\* 0.3 and both products rounded to nearest.  For exponentialDelay =
\* 1000 * 2^n the unit of `below` is 2^(n - 45).  0 * Infinity is NaN.
\*   m / 4:        75 * m * 2^n, less one unit for m = 3;
\*   1 - k 2^-53:  the first product is q = round(0.6 k) units of 2^-54 under
\*                 the double 0.3, the second round((200 + 1000 q) / 1024)
\*                 units of 2^(n - 44) under 300 * 2^n.
Jitter(rnd, exponentialDelay) ==
  IF exponentialDelay.kind = "inf" THEN (IF IsZero(rnd) THEN DblNaN ELSE DblInf)
  ELSE IF exponentialDelay.kind \in {"big", "top"}
  THEN (IF IsZero(rnd) THEN Dbl(0, 0) ELSE DblBig)
  ELSE IF rnd.kind = "quarters"
  THEN Dbl((3 * rnd.n * exponentialDelay.int) \div 40, IF rnd.n = 3 THEN 1 ELSE 0)
  ELSE LET q == (6 * rnd.n + 5) \div 10
           j == (200 + 1000 * q + 512) \div 1024
       IN Dbl((3 * exponentialDelay.int) \div 10, 2 * j)

\* Line 100: exponentialDelay + jitter.  The sum lies between 1024 * 2^n and
\* 2048 * 2^n, where doubles are 8 units of 2^(n - 45) apart.  On "top" the
\* jitter of every Math.random() of Randoms but 0 is at least 7.5% of it, so
\* the sum exceeds the largest double and is Infinity.
Plus(exponentialDelay, jitter) ==
  IF exponentialDelay.kind = "nan" \/ jitter.kind = "nan" THEN DblNaN
  ELSE IF exponentialDelay.kind = "inf" \/ jitter.kind = "inf" THEN DblInf
  ELSE IF exponentialDelay.kind = "top"
  THEN (IF jitter.kind = "big" THEN DblInf ELSE DblTop)
  ELSE IF exponentialDelay.kind = "big" \/ jitter.kind = "big" THEN DblBig
  ELSE Dbl(exponentialDelay.int + jitter.int, RoundHalfEven(jitter.below, 8))

\* Line 100: Math.min(x, maxDelayMs); NaN when x is NaN.
MathMin(x, maxDelayMs) ==
  IF x.kind = "nan" THEN DblNaN
  ELSE IF x.kind \in {"inf", "big", "top"} THEN Dbl(maxDelayMs, 0)
  ELSE IF x.int > maxDelayMs \/ (x.int = maxDelayMs /\ x.below = 0)
  THEN Dbl(maxDelayMs, 0)
  ELSE x

\* Line 102: Math.floor(delay); NaN, Infinity and the big values, which are
\* integers, are returned as they are.
MathFloor(x) ==
  IF x.kind # "finite" THEN x
  ELSE Dbl(IF x.below > 0 THEN x.int - 1 ELSE x.int, 0)

\* calculateExponentialBackoff(attemptNumber) with Math.random() giving rnd.
calculateExponentialBackoff(attemptNumber, rnd) ==
  LET exponentialDelay == ExponentialDelay(attemptNumber)
      jitter == Jitter(rnd, exponentialDelay)
      delay == MathMin(Plus(exponentialDelay, jitter), MaxDelayMs)
  IN MathFloor(delay)

\* The attempt numbers passed.
Attempts == (0..MaxAttempt) \cup {MaxExactAttempt + 1, OverflowAttempt - 1,
                                  OverflowAttempt, 1024}

InitBackoff ==
  /\ transactions = <<>>
  /\ nextId = 1
  /\ stablecoins = <<>>
  /\ accounts = MainAccounts
  /\ pc = [p \in Procs |-> "idle"]
  /\ started = 0
  /\ InitLocals
  /\ firstRows = [n \in 1..Len(ChainBlocks) |-> Null]
  /\ parse = NoParse
  /\ \E attemptNumber \in Attempts :
       call = [fn |-> "calculateExponentialBackoff", attemptNumber |-> attemptNumber,
               done |-> FALSE, random |-> [kind |-> "quarters", n |-> 0],
               delay |-> Dbl(0, 0)]
  /\ ledger = NoLedger
  /\ sweep = NoSweep

BackoffCall ==
  /\ call.fn = "calculateExponentialBackoff" /\ ~call.done
  /\ \E rnd \in Randoms :
       call' = [call EXCEPT
                  !.done = TRUE, !.random = rnd,
                  !.delay = calculateExponentialBackoff(call.attemptNumber, rnd)]
  /\ UNCHANGED <<transactions, nextId, stablecoins, accounts, pc, started, blk,
                 receiptOk, det, cand, chk, batchStart, ingestedCount, stats,
                 currentMap, result, trace, firstRows, parse, ledger, sweep>>

NextBackoff == BackoffCall

SpecBackoff == InitBackoff /\ [][NextBackoff]_vars

\* ---------------- SpecJob: the catch block of the scheduled ingest job
\* functions.ts line 20: retries.
JobRetries == 5

\* Texts are tuples of characters.
UpperLetters ==
  <<"A","B","C","D","E","F","G","H","I","J","K","L","M",
    "N","O","P","Q","R","S","T","U","V","W","X","Y","Z">>
LowerLetters ==
  <<"a","b","c","d","e","f","g","h","i","j","k","l","m",
    "n","o","p","q","r","s","t","u","v","w","x","y","z">>

\* String.prototype.toLowerCase()
ToLowerCase(s) ==
  [i \in 1..Len(s) |->
     IF \E k \in 1..26 : UpperLetters[k] = s[i]
     THEN LowerLetters[CHOOSE k \in 1..26 : UpperLetters[k] = s[i]]
     ELSE s[i]]

\* String.prototype.includes(part)
Includes(s, part) ==
  \E i \in 0..(Len(s) - Len(part)) : SubSeq(s, i + 1, i + Len(part)) = part

\* rate-limit.ts lines 15-21
rateLimitIndicators ==
  <<<<"r","a","t","e"," ","l","i","m","i","t">>,
    <<"4","2","9">>,
    <<"t","o","o"," ","m","a","n","y"," ","r","e","q","u","e","s","t","s">>,
    <<"r","e","q","u","e","s","t"," ","l","i","m","i","t"," ","e","x","c","e","e","d","e","d">>,
    <<"r","a","t","e"," ","l","i","m","i","t"," ","e","x","c","e","e","d","e","d">>>>

\* parseInt(s, 10): white space, a sign and the decimal digits that follow;
\* Null stands for NaN.
ParseInt10(s) ==
  LET start == IF \E i \in 1..Len(s) : s[i] # " "
               THEN CHOOSE i \in 1..Len(s) : s[i] # " " /\ \A j \in 1..(i - 1) : s[j] = " "
               ELSE Len(s) + 1
      signed == start <= Len(s) /\ s[start] \in {"-", "+"}
      first == IF signed THEN start + 1 ELSE start
      last == IF \E i \in first..Len(s) : ~IsDecDigit(s[i])
              THEN (CHOOSE i \in first..Len(s) :
                      ~IsDecDigit(s[i]) /\ \A j \in first..(i - 1) : IsDecDigit(s[j])) - 1
              ELSE Len(s)
      value == DigitsValue(SubSeq(s, first, last), 10)
  IN IF last < first THEN Null
     ELSE Some(IF signed /\ s[start] = "-" THEN 0 - value ELSE value)

\* Times are milliseconds after 2026-10-29T15:00:00.000Z.
HttpDate == <<"T","h","u",","," ","2","9"," ","O","c","t"," ","2","0","2","6",
    " ","1","5",":","0","0",":","3","0"," ","G","M","T">>
\* new Date(s).getTime() for the texts of the model; Null stands for NaN.
DateGetTime(s) == IF s = HttpDate THEN Some(30000) ELSE Null
\* Date.now()
JobNows == {0, 45000}

\* The messages of the errors.
MsgNotFound == <<"B","l","o","c","k"," ","n","o","t"," ","f","o","u","n","d">>
MsgRateLimit == <<"R","a","t","e"," ","l","i","m","i","t"," ","e","x","c","e","e","d","e","d">>
MsgHttp429 == <<"H","T","T","P"," ","r","e","q","u","e","s","t"," ","f","a",
    "i","l","e","d","."," ","S","t","a","t","u","s",":"," ","4","2","9">>
MsgTooMany == <<"T","o","o"," ","M","a","n","y"," ","R","e","q","u","e","s","t","s">>
MsgRequestLimit == <<"R","e","q","u","e","s","t"," ","l","i","m","i","t"," ",
    "e","x","c","e","e","d","e","d">>
MsgBlock14290 == <<"B","l","o","c","k"," ","a","t"," ","n","u","m","b","e",
    "r"," ","1","4","2","9","0"," ","c","o","u","l","d"," ","n","o","t"," ",
    "b","e"," ","f","o","u","n","d",".">>

\* What `x.headers` holds: a plain object whose property 'retry-after' is the
\* value, or a Headers instance of the Fetch API, whose entries are read with
\* get() and are no properties.
PlainHeaders(v) == [kind |-> "object", retryAfter |-> Some(v)]
FetchHeaders(v) == [kind |-> "Headers", retryAfter |-> Some(v)]

\* x?.headers?.['retry-after']; Null stands for undefined.
RetryAfterProperty(x) ==
  IF x = Null \/ Val(x).headers = Null THEN Null
  ELSE IF Val(Val(x).headers).kind = "object" THEN Val(Val(x).headers).retryAfter
  ELSE Null

\* A nested object (cause, error, response) and a thrown value.
Part(status, statusCode, headers) ==
  [status |-> status, statusCode |-> statusCode, headers |-> headers]
Thrown(isError, message, status, statusCode, headers) ==
  [isError |-> isError, message |-> message, status |-> status,
   statusCode |-> statusCode, headers |-> headers,
   cause |-> Null, error |-> Null, response |-> Null]

\* The values the try block of the job throws; Null is `throw undefined`.
JobErrors ==
  {Null,
   Some(Thrown(TRUE, MsgNotFound, Null, Null, Null)),
   Some(Thrown(TRUE, MsgRateLimit, Null, Null, Null)),
   Some(Thrown(TRUE, MsgHttp429, Some(429), Null, Some(PlainHeaders(<<"3","0">>)))),
   Some(Thrown(TRUE, MsgHttp429, Some(429), Null, Some(FetchHeaders(<<"3","0">>)))),
   Some([Thrown(TRUE, MsgNotFound, Null, Null, Null) EXCEPT
           !.cause = Some(Part(Some(429), Null, Some(PlainHeaders(HttpDate))))]),
   Some([Thrown(FALSE, <<>>, Null, Some(429), Null) EXCEPT
           !.response = Some(Part(Null, Null, Some(PlainHeaders(<<"0">>))))]),
   Some(Thrown(TRUE, MsgBlock14290, Null, Null, Null)),
   Some([Thrown(TRUE, MsgTooMany, Null, Null, Null) EXCEPT
           !.response = Some(Part(Some(429), Null, Some(PlainHeaders(<<>>))))]),
   Some([Thrown(TRUE, MsgRequestLimit, Null, Null,
                Some(PlainHeaders(<<"s","o","o","n">>))) EXCEPT
           !.error = Some(Part(Null, Some(429), Null))]),
   Some(Thrown(TRUE, MsgNotFound, Some(500), Null, Some(PlainHeaders(<<"3","0">>))))}

\* x?.status === 429 || x?.statusCode === 429
Has429(x) ==
  x # Null /\ (Val(x).status = Some(429) \/ Val(x).statusCode = Some(429))

\* rate-limit.ts lines 9-50
isRateLimitError(error) ==
  IF error = Null THEN FALSE
  ELSE IF Val(error).isError
          /\ \E k \in 1..Len(rateLimitIndicators) :
               Includes(ToLowerCase(Val(error).message), rateLimitIndicators[k])
    THEN TRUE
  ELSE IF Has429(error) THEN TRUE
  ELSE IF Has429(Val(error).cause) THEN TRUE
  ELSE IF Has429(Val(error).error) THEN TRUE
  ELSE Has429(Val(error).response)

\* `a || b` on header values: the empty text and undefined are falsy.
OrElse(a, b) == IF a # Null /\ Val(a) # <<>> THEN a ELSE b

\* rate-limit.ts lines 56-82; the result is in milliseconds, Null is null.
getRetryAfterMs(error, now) ==
  IF error = Null THEN Null
  ELSE LET retryAfter ==
             OrElse(RetryAfterProperty(error),
                    OrElse(RetryAfterProperty(Val(error).response),
                           RetryAfterProperty(Val(error).cause)))
       IN IF retryAfter = Null \/ Val(retryAfter) = <<>> THEN Null
          ELSE LET seconds == ParseInt10(Val(retryAfter))
                   time == DateGetTime(Val(retryAfter))
               IN IF seconds # Null THEN Some(Val(seconds) * 1000)
                  ELSE IF time # Null THEN Some(Val(time) - now)
                  ELSE Null

\* functions.ts lines 50-76: what the catch block throws.
JobCatch(error, attempt, now, rnd) ==
  IF isRateLimitError(error)
  THEN LET fromError == getRetryAfterMs(error, now)
       IN [kind |-> "RetryAfterError",
           retryAfterMs |-> IF fromError # Null THEN Dbl(Val(fromError), 0)
                            ELSE calculateExponentialBackoff(attempt, rnd),
           error |-> Null]
  ELSE [kind |-> "rethrown", retryAfterMs |-> Dbl(0, 0), error |-> error]

InitJob ==
  /\ transactions = <<>>
  /\ nextId = 1
  /\ stablecoins = <<>>
  /\ accounts = MainAccounts
  /\ pc = [p \in Procs |-> "idle"]
  /\ started = 0
  /\ InitLocals
  /\ firstRows = [n \in 1..Len(ChainBlocks) |-> Null]
  /\ parse = NoParse
  /\ \E attempt \in 0..JobRetries, error \in JobErrors :
       call = [fn |-> "ingestLatestBlock", attempt |-> attempt, error |-> error,
               done |-> FALSE, now |-> 0, random |-> [kind |-> "quarters", n |-> 0],
               thrown |-> [kind |-> "none", retryAfterMs |-> Dbl(0, 0), error |-> Null]]
  /\ ledger = NoLedger
  /\ sweep = NoSweep

\* The try block has thrown call.error; the catch block runs.
JobFail ==
  /\ call.fn = "ingestLatestBlock" /\ ~call.done
  /\ \E now \in JobNows, rnd \in Randoms :
       call' = [call EXCEPT
                  !.done = TRUE, !.now = now, !.random = rnd,
                  !.thrown = JobCatch(call.error, call.attempt, now, rnd)]
  /\ UNCHANGED <<transactions, nextId, stablecoins, accounts, pc, started, blk,
                 receiptOk, det, cand, chk, batchStart, ingestedCount, stats,
                 currentMap, result, trace, firstRows, parse, ledger, sweep>>

NextJob == JobFail

SpecJob == InitJob /\ [][NextJob]_vars

\* ------- SpecBatch: one checkAndIngestAddresses call over long lists
\* How many distinct candidates beyond one full batch the longest list has.
MaxExtra == 2

\* The addresses the lists are made of, as the caller spells them.
BatchPool ==
  <<"0xAbCd", "0x01", "0x02", "0x03", "0x04", "0x05", "0x06", "0x07", "0x08",
    "0x09", "0x0a", "0xC0DE", "0x0b", "0x0c">>

\* A list with BatchSize + k distinct non-zero addresses, the zero address
\* twice and "0xabcd" in two spellings.
BatchList(k) ==
  <<ZeroAddress>> \o SubSeq(BatchPool, 1, BatchSize + k) \o <<"0xabcd", ZeroAddress>>

BatchLists == {<<>>, <<ZeroAddress>>} \cup {BatchList(k) : k \in 0..MaxExtra}

\* The chain of SpecBatch: 0xabcd and 0x0a are token contracts, 0xc0de has
\* two bytes of code, the other addresses have none.
BatchAccounts ==
  [a \in {Lower(BatchPool[i]) : i \in 1..Len(BatchPool)} |->
     IF a \in {"0xabcd", "0x0a"}
     THEN [code |-> Some(5), decimals |-> TRUE, symbol |-> TRUE, totalSupply |-> TRUE]
     ELSE [code |-> IF a = "0xc0de" THEN Some(2) ELSE Null,
           decimals |-> FALSE, symbol |-> FALSE, totalSupply |-> FALSE]]

InitBatch ==
  /\ transactions = <<>>
  /\ nextId = 1
  /\ stablecoins = <<>>
  /\ accounts = BatchAccounts
  /\ pc = [p \in Procs |-> "idle"]
  /\ started = 0
  /\ InitLocals
  /\ firstRows = [n \in 1..Len(ChainBlocks) |-> Null]
  /\ parse = NoParse
  /\ call = NoCall
  /\ ledger = NoLedger
  /\ sweep = NoSweep

\* checkAndIngestAddresses(addresses, 1, 10), lines 179-194, called once by
\* one caller: the addresses are normalised and deduplicated; an empty list
\* returns 0.
BatchStart ==
  /\ pc["p1"] = "idle"
  /\ started = 0
  /\ started' = 1
  /\ \E addresses \in BatchLists :
       LET unique == UniqueAddresses(addresses)
       IN /\ call' = [fn |-> "checkAndIngestAddresses", addresses |-> addresses]
          /\ det' = [det EXCEPT !["p1"] =
                       [blockNumber |-> 1, blockTimestamp |-> Some(10),
                        caller |-> "checkAndIngestAddresses"]]
          /\ cand' = [cand EXCEPT !["p1"] = unique]
          /\ chk' = [chk EXCEPT !["p1"] = [i \in 1..Len(unique) |-> "todo"]]
          /\ pc' = [pc EXCEPT !["p1"] = IF Len(unique) = 0 THEN "returned" ELSE "detect"]
          /\ result' = [result EXCEPT !["p1"] =
                          IF Len(unique) = 0
                          THEN [NoResult EXCEPT !.kind = "count", !.count = 0]
                          ELSE NoResult]
  /\ UNCHANGED <<transactions, nextId, stablecoins, accounts, blk, receiptOk,
                 batchStart, ingestedCount, stats, currentMap, trace, firstRows,
                 parse, ledger, sweep>>

NextBatch ==
  \/ BatchStart
  \/ \E i \in 1..Len(cand["p1"]) : DetectCheck("p1", i)
  \/ \E i \in 1..Len(cand["p1"]) : DetectInsert("p1", i)
  \/ DetectSettle("p1")

SpecBatch == InitBatch /\ [][NextBatch]_vars

\* ------------------------------------------- SpecParse: the identifier
\* The characters identifiers are drawn from.
IdChars == {"0", "1", "5", "a", "x", "-", "."}
Ids == UNION {[1..n -> IdChars] : n \in 0..MaxIdLen}

InitParse ==
  /\ transactions = <<>>
  /\ nextId = 1
  /\ stablecoins = <<>>
  /\ accounts = MainAccounts
  /\ pc = [p \in Procs |-> "idle"]
  /\ started = 0
  /\ InitLocals
  /\ firstRows = [n \in 1..Len(ChainBlocks) |-> Null]
  /\ \E id \in Ids : parse = [NoParse EXCEPT !.id = id]
  /\ call = NoCall
  /\ ledger = NoLedger
  /\ sweep = NoSweep

\* ingestBlock, lines 42-67: the identifier is parsed and the block request
\* (if any) is issued.
IngestBlockParse ==
  /\ ~parse.done
  /\ LET parsed == ParseBlockId(parse.id)
     IN parse' = [id |-> parse.id, done |-> TRUE, outcome |-> parsed.outcome,
                  request |-> BlockRequest(parsed)]
  /\ UNCHANGED <<transactions, nextId, stablecoins, accounts, pc, started, blk,
                 receiptOk, det, cand, chk, batchStart, ingestedCount, stats,
                 currentMap, result, trace, firstRows, call, ledger, sweep>>

NextParse == IngestBlockParse

SpecParse == InitParse /\ [][NextParse]_vars

\* A non-negative integer string: one or more decimal digits.
IsNonNegIntString(s) == Len(s) > 0 /\ AllDec(s)

\* C5: a non-negative integer string N is fetched by block number N (N = 0
\* included), and every identifier starting with "0x" is fetched by that hash.
C5_IdentifierClassified ==
  parse.done =>
    /\ IsNonNegIntString(parse.id) =>
         parse.request = [by |-> "blockNumber",
                          blockNumber |-> Some(DigitsValue(parse.id, 10)),
                          blockHash |-> Null]
    /\ StartsWith0x(parse.id) =>
         parse.request = [by |-> "blockHash", blockNumber |-> Null,
                          blockHash |-> Some(parse.id)]

\* C6: an identifier that is neither a non-negative integer string nor
\* "0x"-prefixed fails with the invalid-identifier error and no request
\* reaches the chain data source (and no row is written).
C6_InvalidIdentifierRejected ==
  (parse.done /\ ~IsNonNegIntString(parse.id) /\ ~StartsWith0x(parse.id)) =>
    /\ parse.outcome = "InvalidBlockId"
    /\ parse.request.by = "none"
    /\ transactions = <<>> /\ stablecoins = <<>>

\* ================================================== claims checked in Spec
UniqueHashes ==
  \A i, j \in 1..Len(transactions) :
    transactions[i].hash = transactions[j].hash => i = j

\* C1: once a successful ingestBlock(N) has returned, every later successful
\* ingestBlock(N) leaves one row per transaction hash of block N with the field
\* values the rows had after the first call, and no two rows ever share a hash.
C1_IngestionIdempotent ==
  /\ UniqueHashes
  /\ \A p \in Procs :
       (pc[p] = "returned" /\ result[p].kind = "success"
        /\ result[p].transactionsIngested > 0 /\ trace[p].after) =>
         /\ Cardinality(RowsOfBlock(transactions, BlockOf(p).number))
              = Len(HashesOf(p))
         /\ RowsOfBlock(transactions, BlockOf(p).number)
              = Val(firstRows[BlockOf(p).number])

RowWithHash(table, h) == {i \in 1..Len(table) : table[i].hash = h}

\* C2: the batch upsert is all-or-nothing: when one upsert fails the table is
\* left as it was and ingestTransactions' error reaches the caller; when none
\* fails every record of the batch is in the table, the other rows untouched.
C2_BatchAllOrNothing ==
  [][\A p \in Procs :
       (pc[p] = "persist" /\ pc'[p] # "persist") =>
         LET txs == TransactionsToIngest(BlockOf(p), receiptOk[p])
             hashes == {txs[i].hash : i \in 1..Len(txs)}
         IN \/ /\ trace'[p].persist = "failed"
               /\ pc'[p] = "threw"
               /\ result'[p] = Failure("ingestTransactions")
               /\ transactions' = transactions
            \/ /\ trace'[p].persist = "ok"
               /\ pc'[p] # "threw"
               /\ \A i \in 1..Len(txs) :
                    \E j \in 1..Len(transactions') :
                      transactions'[j] = TransactionRow(txs[i], transactions'[j].id)
               /\ \A j \in 1..Len(transactions) :
                    transactions[j].hash \notin hashes =>
                      transactions'[j] = transactions[j]]_vars

\* C2 witness: the second upsert of a batch failed and no row is visible.
C2_Witness ==
  \E p \in Procs :
    /\ pc[p] = "threw" /\ trace[p].persist = "failed" /\ trace[p].failAt = 2
    /\ transactions = <<>>

Volume(s) == ParseBigInt(s)

\* C3: across every step, no stored counter of a stablecoin decreases.
C3_CountersMonotone ==
  [][/\ Len(stablecoins') >= Len(stablecoins)
     /\ \A i \in 1..Len(stablecoins) :
          /\ stablecoins'[i].address = stablecoins[i].address
          /\ stablecoins'[i].transferCount >= stablecoins[i].transferCount
          /\ stablecoins'[i].feePaymentCount >= stablecoins[i].feePaymentCount
          /\ Volume(stablecoins'[i].transferVolume) >= Volume(stablecoins[i].transferVolume)
          /\ Volume(stablecoins'[i].feeVolume) >= Volume(stablecoins[i].feeVolume)]_vars

\* C4: a stablecoin row, once present, keeps its address, firstSeenBlock and
\* firstSeenTimestamp in every step.
C4_FirstSeenImmutable ==
  [][/\ Len(stablecoins') >= Len(stablecoins)
     /\ \A i \in 1..Len(stablecoins) :
          /\ stablecoins'[i].address = stablecoins[i].address
          /\ stablecoins'[i].firstSeenBlock = stablecoins[i].firstSeenBlock
          /\ stablecoins'[i].firstSeenTimestamp = stablecoins[i].firstSeenTimestamp]_vars

\* C4 witness: a row first seen in block 1 has been through an aggregation
\* update, and a detection pass of block 2 has run its insert for the same
\* address (the unique index refused it).
C4_Witness ==
  \E p \in Procs, i \in 1..Len(stablecoins) :
    /\ stablecoins[i].firstSeenBlock = Some(1)
    /\ stablecoins[i].lastActivityBlock # Null
    /\ det[p].blockNumber = 2
    /\ \E k \in 1..Len(cand[p]) :
         cand[p][k] = stablecoins[i].address /\ chk[p][k] = "true"
    /\ trace[p].created = 0

\* C7: a call whose batch upsert failed has thrown that error and has run no
\* detection, no statistics calculation and no stablecoin write.
C7_NoDetectionAfterFailedPersist ==
  \A p \in Procs :
    trace[p].persist = "failed" =>
      /\ pc[p] = "threw"
      /\ result[p] = Failure("ingestTransactions")
      /\ ~trace[p].detect /\ ~trace[p].statsRun /\ trace[p].created = 0

\* C7 witness: a call's batch upsert failed while the stablecoins table holds
\* a row (written by another call).
C7_Witness ==
  \E p \in Procs :
    trace[p].persist = "failed" /\ pc[p] = "threw" /\ Len(stablecoins) > 0

\* C8: a call whose batch upsert succeeded never throws; when it has returned
\* it has returned the success summary; and the block's rows stay in the table.
C8_SuccessAfterPersist ==
  \A p \in Procs :
    trace[p].persist = "ok" =>
      /\ pc[p] \in {"detect", "stats", "update", "commit", "returned"}
      /\ pc[p] = "returned" =>
           result[p] = Summary(BlockOf(p), Len(HashesOf(p)))
      /\ \A k \in 1..Len(HashesOf(p)) :
           RowWithHash(transactions, HashesOf(p)[k]) # {}

\* C8 witness: a call returned its summary although its statistics stage
\* threw and one of its address checks rejected.
C8_Witness ==
  \E p \in Procs :
    /\ pc[p] = "returned" /\ trace[p].persist = "ok" /\ trace[p].soft
    /\ result[p].kind = "success" /\ result[p].transactionsIngested = 2

\* ============================================ claims checked in SpecCheck
\* The conditions under which an address is a token not yet recorded: it is
\* not the zero address, the table has no row for its lowercase form, its
\* code has at least 3 bytes, and decimals(), symbol() and totalSupply() each
\* returned a value.
IsNewToken(table, a) ==
  /\ Lower(a) # ZeroAddress
  /\ ~\E i \in 1..Len(table) : table[i].address = Lower(a)
  /\ accounts[Lower(a)].code # Null
  /\ Val(accounts[Lower(a)].code) >= 3
  /\ accounts[Lower(a)].decimals
  /\ accounts[Lower(a)].symbol
  /\ accounts[Lower(a)].totalSupply

\* C9: checkAndIngestAddress(a, b, t) goes on to its insert exactly when a is
\* a token not yet recorded, and the insert adds the row of lowercase(a) with
\* firstSeenBlock = b; in every other case it returns false and the table is
\* unchanged (a rejected store call also leaves the table unchanged).
C9_RowCreatedExactlyWhenToken ==
  [][\A p \in Procs :
       (pc[p] = "detect" /\ det[p].caller = "checkAndIngestAddress"
        /\ chk'[p] # chk[p]) =>
         LET a == cand[p][1]
             token == IsNewToken(stablecoins, a)
             last == stablecoins'[Len(stablecoins')]
         IN /\ chk'[p][1] \in {"false", "insert", "true", "rejected"}
            /\ chk'[p][1] = "false" => (~token /\ stablecoins' = stablecoins)
            /\ chk'[p][1] = "insert" => (token /\ stablecoins' = stablecoins)
            /\ chk'[p][1] = "rejected" =>
                 (Lower(a) # ZeroAddress /\ stablecoins' = stablecoins)
            /\ chk'[p][1] = "true" =>
                 /\ token
                 /\ Len(stablecoins') = Len(stablecoins) + 1
                 /\ SubSeq(stablecoins', 1, Len(stablecoins)) = stablecoins
                 /\ last.address = Lower(a)
                 /\ last.firstSeenBlock = Some(det[p].blockNumber)]_vars

\* C9 witness: checkAndIngestAddress("0xAbCd", 2, t) returned true for an
\* account with exactly 3 bytes of code, next to a row of another address,
\* and the table now ends with the row of "0xabcd" first seen in block 2.
C9_Witness ==
  /\ det["p1"].caller = "checkAndIngestAddress"
  /\ cand["p1"] = <<"0xAbCd">>
  /\ chk["p1"] = <<"true">>
  /\ accounts["0xabcd"].code = Some(3)
  /\ Len(stablecoins) = 2
  /\ stablecoins[2].address = "0xabcd"
  /\ stablecoins[2].firstSeenBlock = Some(2)

\* =========================================== claims checked in SpecDetect
\* C10: every check that returned true recorded a new row in that call, so
\* the number checkAndIngestAddresses returns is the number of rows the call
\* created, also while another pass works on the same address.
C10_CountEqualsRowsCreated ==
  \A p \in Procs :
    det[p].caller = "checkAndIngestAddresses" =>
      /\ Cardinality({i \in 1..Len(chk[p]) : chk[p][i] = "true"}) = trace[p].created
      /\ (pc[p] = "returned" /\ result[p].kind = "count") =>
           result[p].count = trace[p].created

\* C11: no two stablecoin rows share a lowercase address; a check rejects
\* only when a store call failed for another reason than the address being
\* present; and two passes that both went on to insert the same address have
\* both returned and left one row for it.
C11_RaceLeavesOneRow ==
  /\ \A i, j \in 1..Len(stablecoins) :
       Lower(stablecoins[i].address) = Lower(stablecoins[j].address) => i = j
  /\ \A p \in Procs :
       (\E i \in 1..Len(chk[p]) : chk[p][i] = "rejected") => trace[p].storeError
  /\ \A p, q \in Procs : \A i \in 1..Len(chk[p]) : \A j \in 1..Len(chk[q]) :
       (p # q /\ cand[p][i] = cand[q][j] /\ chk[p][i] = "true" /\ chk[q][j] = "true") =>
         Cardinality({k \in 1..Len(stablecoins) :
                        stablecoins[k].address = cand[p][i]}) = 1

\* C11 witness: two passes of different blocks both passed the already-known
\* check for "0xabcd" before either inserted; both have returned a count,
\* neither met a store error, and one row exists (the second insert met the
\* unique index).
C11_Witness ==
  /\ pc["p1"] = "returned" /\ pc["p2"] = "returned"
  /\ result["p1"].kind = "count" /\ result["p2"].kind = "count"
  /\ \A p \in Procs :
       (cand[p] = <<"0xabcd">> /\ chk[p] = <<"true">> /\ ~trace[p].storeError)
  /\ trace["p1"].created + trace["p2"].created = 1
  /\ Len(stablecoins) = 1

\* ============================================ claims checked in SpecStats
\* The addresses of the stablecoins table, as calculateStablecoinStats knows
\* them.
KnownStablecoins == {Lower(stablecoins[i].address) : i \in 1..Len(stablecoins)}

\* Whether a log is a Transfer event of stablecoin a.
IsTransferOf(log, a) ==
  /\ Lower(log.address) = a
  /\ Len(log.topics) > 0
  /\ log.topics[1] = TRANSFER_EVENT_SIGNATURE

\* The amount in a log's data: the first 32 bytes, when the data has them and
\* they are hexadecimal digits.
HasAmount(log) == Len(log.data) >= 66 /\ AllHex(SubSeq(log.data, 3, 66))
AmountOf(log) == DigitsValue(SubSeq(log.data, 3, 66), 16)

\* The Transfer events of a in a list of receipts, and the sum of the
\* amounts that can be extracted from them.
TransferEvents(receipts, a) ==
  Cardinality({ij \in (1..Len(receipts)) \X (1..3) :
                 /\ ij[2] <= Len(receipts[ij[1]].logs)
                 /\ IsTransferOf(receipts[ij[1]].logs[ij[2]], a)})

RECURSIVE LogAmounts(_, _)
LogAmounts(logs, a) ==
  IF logs = <<>> THEN 0
  ELSE (IF IsTransferOf(Head(logs), a) /\ HasAmount(Head(logs))
        THEN AmountOf(Head(logs)) ELSE 0)
       + LogAmounts(Tail(logs), a)

RECURSIVE TransferAmounts(_, _)
TransferAmounts(receipts, a) ==
  IF receipts = <<>> THEN 0
  ELSE LogAmounts(Head(receipts).logs, a) + TransferAmounts(Tail(receipts), a)

\* C12: the call returns (malformed data never aborts it) and, for every
\* known stablecoin, transferCount is the number of its Transfer events in
\* the receipts, with or without an extractable amount, and transferVolume
\* the sum of the amounts that could be extracted.
C12_EveryTransferCounted ==
  (call.fn = "calculateStablecoinStats" /\ call.done /\ ~call.threw) =>
    \A a \in KnownStablecoins :
      LET count == IF a \in DOMAIN call.stats THEN call.stats[a].transferCount ELSE 0
          volume == IF a \in DOMAIN call.stats THEN call.stats[a].transferVolume ELSE 0
      IN /\ count = TransferEvents(call.receipts, a)
         /\ volume = TransferAmounts(call.receipts, a)

\* Whether a receipt has a Transfer event of a known stablecoin or names one
\* as its fee token.
HasActivity(r) ==
  \/ \E a \in KnownStablecoins : \E i \in 1..Len(r.logs) : IsTransferOf(r.logs[i], a)
  \/ r.feeToken # Null /\ Lower(Val(r.feeToken)) \in KnownStablecoins

\* C13: the mapping calculateStablecoinStats returns holds only known
\* stablecoins, each with transferCount > 0 or feePaymentCount > 0; it is
\* empty when the store holds no stablecoin and when no receipt has a
\* matching log or fee token.
C13_OnlyActiveStablecoins ==
  (call.fn = "calculateStablecoinStats" /\ call.done /\ ~call.threw) =>
    /\ DOMAIN call.stats \subseteq KnownStablecoins
    /\ \A a \in DOMAIN call.stats :
         /\ call.stats[a].address = a
         /\ call.stats[a].transferCount > 0 \/ call.stats[a].feePaymentCount > 0
    /\ stablecoins = <<>> => DOMAIN call.stats = {}
    /\ (\A i \in 1..Len(call.receipts) : ~HasActivity(call.receipts[i])) =>
         DOMAIN call.stats = {}

\* C13 witness: one known stablecoin ("0xabcd") and receipts with logs (an
\* Approval of "0xabcd", a Transfer of an unknown address, an unknown fee
\* token) but none matching: the returned mapping is empty.
C13_Witness ==
  /\ call.fn = "calculateStablecoinStats" /\ call.done /\ ~call.threw
  /\ KnownStablecoins = {"0xabcd"}
  /\ Len(call.receipts) = 2
  /\ call.receipts[1] = StatsReceipts[3]
  /\ DOMAIN call.stats = {}

\* ================================================= claims checked in Spec
\* C14: aggregation is not idempotent.  Every updateStablecoinStats of an
\* ingestBlock call that commits adds the deltas of its statistics to the
\* counts of each row it names and writes the volumes it read plus its deltas,
\* whatever the row's lastActivityBlock is: a block aggregated before is
\* aggregated again.
C14_EveryPassAddsItsDeltas ==
  [][\A p \in Procs :
       (pc[p] = "commit" /\ pc'[p] = "returned" /\ ~trace'[p].soft) =>
         \A i \in 1..Len(stablecoins) :
           stablecoins[i].address \in DOMAIN stats[p] =>
             LET a == stablecoins[i].address
                 d == stats[p][a]
             IN /\ stablecoins'[i].transferCount =
                     stablecoins[i].transferCount + d.transferCount
                /\ stablecoins'[i].feePaymentCount =
                     stablecoins[i].feePaymentCount + d.feePaymentCount
                /\ Volume(stablecoins'[i].transferVolume) =
                     Volume(currentMap[p][a].transferVolume) + d.transferVolume
                /\ Volume(stablecoins'[i].feeVolume) =
                     Volume(currentMap[p][a].feeVolume) + d.feeVolume]_vars

\* C14 witness: one caller ingested block 1 twice, one call after the other,
\* and the row of 0xabcd holds the block's deltas twice.
C14_Witness ==
  /\ started = 2 /\ pc["p1"] = "returned" /\ pc["p2"] = "idle"
  /\ result["p1"].blockNumber = <<"1">> /\ ~trace["p1"].soft
  /\ \E i \in 1..Len(stablecoins) :
       /\ stablecoins[i].address = "0xabcd"
       /\ stablecoins[i].transferCount = 2
       /\ stablecoins[i].transferVolume = <<"4">>
       /\ stablecoins[i].feePaymentCount = 2
       /\ stablecoins[i].feeVolume = <<"2">>
       /\ stablecoins[i].lastActivityBlock = Some(1)

\* =========================================== claims checked in SpecUpdate
RowOf(table, a) == table[CHOOSE i \in 1..Len(table) : table[i].address = a]

\* The callers whose commit runs in this step.
Committing(p) == pc[p] = "commit" /\ pc'[p] # "commit"

\* C17: the volume race.  A call that commits writes, for each address, the
\* volume its own earlier read returned plus its delta, whatever the row holds
\* when the commit runs; so the delta of a call that committed between the read
\* and the commit is lost.
C17_VolumeWrittenFromEarlierRead ==
  [][\A p \in Procs :
       (Committing(p) /\ pc'[p] = "returned") =>
         \A a \in DOMAIN stats[p] :
           /\ Volume(RowOf(stablecoins', a).transferVolume) =
                Volume(currentMap[p][a].transferVolume) + stats[p][a].transferVolume
           /\ Volume(RowOf(stablecoins', a).feeVolume) =
                Volume(currentMap[p][a].feeVolume) + stats[p][a].feeVolume]_vars

\* C17 witness: two calls with transfer volume deltas a and b for 0xabcd have
\* both committed, and the stored volume is initial + a or initial + b.
C17_Witness ==
  \E p, q \in Procs :
    /\ p # q /\ started = 2
    /\ pc[p] = "returned" /\ pc[q] = "returned"
    /\ result[p] = Void /\ result[q] = Void
    /\ "0xabcd" \in DOMAIN stats[p] /\ "0xabcd" \in DOMAIN stats[q]
    /\ LET a == stats[p]["0xabcd"].transferVolume
           b == stats[q]["0xabcd"].transferVolume
           initial == Volume(UpdateTable[1].transferVolume)
           stored == Volume(RowOf(stablecoins, "0xabcd").transferVolume)
       IN /\ a > 0 /\ b > 0
          /\ ledger["0xabcd"].transferVolume = a + b
          /\ stored \in {initial + a, initial + b}

\* C18: in every state, the transferCount and feePaymentCount of every row
\* are their initial values plus the sums of the count deltas of the calls
\* that committed.
C18_CountsExact ==
  \A i \in 1..Len(stablecoins) :
    LET a == stablecoins[i].address
    IN /\ stablecoins[i].transferCount =
            UpdateTable[i].transferCount + ledger[a].transferCount
       /\ stablecoins[i].feePaymentCount =
            UpdateTable[i].feePaymentCount + ledger[a].feePaymentCount

\* C18 witness: three calls have committed, two of them interleaved so that a
\* volume delta was lost, and the counts of both rows hold every delta.
C18_Witness ==
  /\ started = MaxUpdates
  /\ \A p \in Procs : pc[p] = "returned" /\ result[p] = Void
  /\ ledger["0xabcd"].transferCount = 4
  /\ ledger["0xc0de"].feePaymentCount = 1
  /\ RowOf(stablecoins, "0xabcd").transferCount = 5
  /\ Volume(RowOf(stablecoins, "0xabcd").transferVolume) <
       Volume(UpdateTable[1].transferVolume) + ledger["0xabcd"].transferVolume

\* C19: the commit of a call is all or nothing.  Either every address of its
\* mapping has its counts incremented, its volumes and its lastActivityBlock
\* written and the other rows are left alone, or the call throws and the
\* table is as it was.
C19_CommitAllOrNothing ==
  [][\A p \in Procs :
       Committing(p) =>
         \/ /\ pc'[p] = "returned"
            /\ Len(stablecoins') = Len(stablecoins)
            /\ \A a \in DOMAIN stats[p] : HasAddress(stablecoins, a)
            /\ \A i \in 1..Len(stablecoins) :
                 LET a == stablecoins[i].address
                 IN IF a \in DOMAIN stats[p]
                    THEN /\ stablecoins'[i].transferCount =
                              stablecoins[i].transferCount + stats[p][a].transferCount
                         /\ stablecoins'[i].feePaymentCount =
                              stablecoins[i].feePaymentCount + stats[p][a].feePaymentCount
                         /\ Volume(stablecoins'[i].transferVolume) =
                              Volume(currentMap[p][a].transferVolume)
                              + stats[p][a].transferVolume
                         /\ Volume(stablecoins'[i].feeVolume) =
                              Volume(currentMap[p][a].feeVolume) + stats[p][a].feeVolume
                         /\ stablecoins'[i].lastActivityBlock = Some(det[p].blockNumber)
                    ELSE stablecoins'[i] = stablecoins[i]
         \/ /\ pc'[p] = "threw"
            /\ stablecoins' = stablecoins]_vars

\* C19 witness: a call naming 0xabcd and an address without a row threw in
\* its transaction, and the row of 0xabcd is as it was before the call.
C19_Witness ==
  \E p \in Procs :
    /\ pc[p] = "threw" /\ result[p] = Failure("$transaction")
    /\ DOMAIN stats[p] = {"0xabcd", "0xdead"}
    /\ started = 1
    /\ stablecoins = UpdateTable

SetMax(S) == CHOOSE x \in S : \A y \in S : y <= x

\* C20: in every state, the lastActivityBlock of every row is the highest
\* block number among the aggregation passes that updated the row, and null
\* when there was none.
C20_LastActivityIsHighestBlock ==
  \A i \in 1..Len(stablecoins) :
    LET blocks == ledger[stablecoins[i].address].blocks
    IN stablecoins[i].lastActivityBlock =
         IF blocks = {} THEN Null ELSE Some(SetMax(blocks))

\* ============================================ claims checked in SpecSweep
\* C15: in every step, a transaction row that disappears is deleted by a
\* sweep with ttlDays > 0, and its timestamp, as the row is in the state the
\* delete runs in, is non-null and below the sweep's cutoff.
C15_DeletesOnlyExpired ==
  [][\A i \in 1..Len(transactions) :
       (\A j \in 1..Len(transactions') : transactions'[j].id # transactions[i].id) =>
         /\ sweep.pc = "delete" /\ sweep.ttlDays > 0
         /\ IsExpired(transactions[i], sweep.cutoff)]_vars

\* ========================================== claims checked in SpecBackoff
\* C16: for every attempt >= 0 the delay returned is a number, at most 60000
\* and at least min(1000 * 2^attempt, 60000); for attempt 0 it is at least
\* 1000 and below 1300.
C16_BackoffWithinBounds ==
  (call.fn = "calculateExponentialBackoff" /\ call.done) =>
    LET floorOf == IF call.attemptNumber >= 6 THEN MaxDelayMs
                   ELSE BaseDelayMs * 2 ^ call.attemptNumber
    IN /\ call.delay.kind = "finite"
       /\ call.delay.int <= MaxDelayMs
       /\ call.delay.int >= floorOf
       /\ call.attemptNumber = 0 =>
            call.delay.int >= 1000 /\ call.delay.int < 1300

\* ================================== claims checked in Spec (third part)
\* C21: a call that is at, or has run, a detection check, a stablecoin insert
\* or a statistics step has its batch upsert committed: the upsert succeeded
\* and every hash of the block has its row.
C21_PersistBeforeDetectionAndStats ==
  \A p \in Procs :
    (\/ pc[p] \in {"detect", "stats", "update", "commit"}
     \/ trace[p].detect \/ trace[p].statsRun \/ trace[p].created > 0) =>
      /\ trace[p].persist = "ok"
      /\ \A k \in 1..Len(HashesOf(p)) :
           RowWithHash(transactions, HashesOf(p)[k]) # {}

\* C21 witness: a call of block 1 has run detection (it created a row) and
\* its statistics read, and is about to write the statistics.
C21_Witness ==
  \E p \in Procs :
    /\ pc[p] = "commit" /\ trace[p].detect /\ trace[p].statsRun
    /\ trace[p].created = 1 /\ BlockOf(p).number = 1
    /\ trace[p].persist = "ok"

\* The receipts of a call's block whose fetch succeeded, from hash k on.
RECURSIVE FetchedReceipts(_, _)
FetchedReceipts(p, k) ==
  IF k > Len(HashesOf(p)) THEN <<>>
  ELSE (IF receiptOk[p][k] THEN <<ChainReceipt(HashesOf(p)[k])>> ELSE <<>>)
       \o FetchedReceipts(p, k + 1)

\* C22: a failed receipt fetch stays with its hash.  The batch upsert of a
\* call writes one row per hash of the block, with the receipt's blockHash,
\* transactionIndex and gasUsed where the fetch succeeded and nulls where it
\* failed; a call that persisted returns transactionsIngested = the number of
\* hashes; and its statistics are calculated over exactly the receipts whose
\* fetch succeeded.
C22_ReceiptFailureIsolated ==
  /\ [](\A p \in Procs :
          (pc[p] = "returned" /\ trace[p].persist = "ok") =>
            result[p].transactionsIngested = Len(HashesOf(p)))
  /\ [][\A p \in Procs :
          /\ (pc[p] = "persist" /\ pc'[p] \notin {"persist", "threw"}) =>
               \A k \in 1..Len(HashesOf(p)) :
                 \E j \in 1..Len(transactions') :
                   LET row == transactions'[j]
                       rc == ChainReceipt(HashesOf(p)[k])
                   IN /\ row.hash = HashesOf(p)[k]
                      /\ \A i \in 1..Len(transactions') :
                           transactions'[i].hash = row.hash => i = j
                      /\ IF receiptOk[p][k]
                         THEN /\ row.blockHash = Some(rc.blockHash)
                              /\ row.transactionIndex = Some(rc.transactionIndex)
                              /\ row.status # Null
                         ELSE /\ row.blockHash = Null /\ row.transactionIndex = Null
                              /\ row.gasUsed = Null /\ row.status = Null
                              /\ row.contractAddress = Null
          /\ (pc[p] = "stats" /\ pc'[p] # "stats") =>
               LET st == calculateStablecoinStats(stablecoins, FetchedReceipts(p, 1))
               IN IF DOMAIN st = {}
                  THEN pc'[p] = "returned"
                  ELSE \/ pc'[p] = "update" /\ stats'[p] = st
                       \/ pc'[p] = "returned" /\ trace'[p].soft]_vars

\* C22 witness: in a call of block 1 the receipt fetch of the second hash
\* failed; both rows are stored, the second without receipt fields, and the
\* statistics hold the transfer of the first receipt.
C22_Witness ==
  \E p \in Procs :
    /\ pc[p] = "update" /\ BlockOf(p).number = 1
    /\ receiptOk[p] = <<TRUE, FALSE>>
    /\ \E j \in RowWithHash(transactions, "h2") :
         transactions[j].status = Null /\ transactions[j].blockHash = Null
    /\ \E j \in RowWithHash(transactions, "h1") :
         transactions[j].status = Some("success")
    /\ "0xabcd" \in DOMAIN stats[p] /\ stats[p]["0xabcd"].transferCount = 1

\* ============================================ claims checked in SpecBatch
\* The distinct lowercased non-zero addresses of a list.
DistinctNonZero(addresses) ==
  {Lower(addresses[i]) : i \in 1..Len(addresses)} \ {ZeroAddress}

\* C23: the candidates of a call are the distinct lowercased non-zero
\* addresses of its list, each once; a call without candidates returns 0
\* without a check; the checks that have begun lie in one window of 10
\* candidates, every candidate before the window is settled and none after
\* it has begun; a settled check is never run again; and the call returns
\* only when every candidate is settled.
C23_BatchesOfTen ==
  /\ [](call.fn = "checkAndIngestAddresses" =>
          LET c == cand["p1"]
              k == chk["p1"]
              b == batchStart["p1"]
          IN IF DistinctNonZero(call.addresses) = {}
             THEN /\ pc["p1"] = "returned" /\ result["p1"].count = 0
                  /\ ~trace["p1"].detect /\ stablecoins = <<>>
             ELSE /\ {c[i] : i \in 1..Len(c)} = DistinctNonZero(call.addresses)
                  /\ Len(c) = Cardinality(DistinctNonZero(call.addresses))
                  /\ \A i \in 1..Len(c) :
                       /\ i <= b => k[i] \in Settled
                       /\ i > b + 10 => k[i] = "todo"
                  /\ Cardinality({i \in 1..Len(c) : k[i] # "todo" /\ i > b}) <= 10
                  /\ pc["p1"] = "returned" => \A i \in 1..Len(c) : k[i] \in Settled)
  /\ [][\A i \in 1..Len(chk["p1"]) :
          chk["p1"][i] \in Settled =>
            (Len(chk'["p1"]) = Len(chk["p1"]) /\ chk'["p1"][i] = chk["p1"][i])]_vars

\* C23 witness: a list with 12 distinct candidates; the first batch of 10
\* has settled and a check of the second batch is between its lookups and its
\* insert while the other has not settled.
C23_Witness ==
  /\ call.fn = "checkAndIngestAddresses"
  /\ Len(cand["p1"]) = 12 /\ batchStart["p1"] = 10
  /\ chk["p1"][11] = "insert" /\ chk["p1"][12] = "todo"
  /\ ingestedCount["p1"] = 1

\* C24: a rejected check stays with its address.  The call never rejects;
\* while it runs, a rejected check stops no other check of its batch and no
\* later batch (every unsettled check of the window can still run, and the
\* next batch starts once the window is settled); and it resolves with the
\* number of checks that returned true.
C24_RejectedCheckIsolated ==
  call.fn = "checkAndIngestAddresses" =>
    /\ pc["p1"] # "threw"
    /\ pc["p1"] = "detect" =>
         \/ \E i \in 1..Len(cand["p1"]) :
              ENABLED DetectCheck("p1", i) \/ ENABLED DetectInsert("p1", i)
         \/ ENABLED DetectSettle("p1")
    /\ pc["p1"] = "returned" =>
         /\ result["p1"].kind = "count"
         /\ \A i \in 1..Len(chk["p1"]) : chk["p1"][i] \in Settled
         /\ result["p1"].count =
              Cardinality({i \in 1..Len(chk["p1"]) : chk["p1"][i] = "true"})

\* C24 witness: checks of the first and of the second batch rejected, and the
\* call resolved with 2, the two token contracts of the list (one in each
\* batch) having been recorded.
C24_Witness ==
  /\ call.fn = "checkAndIngestAddresses" /\ pc["p1"] = "returned"
  /\ Len(cand["p1"]) = 12
  /\ chk["p1"][2] = "rejected" /\ chk["p1"][12] = "rejected"
  /\ chk["p1"][1] = "true" /\ chk["p1"][11] = "true"
  /\ result["p1"].count = 2 /\ Len(stablecoins) = 2

\* ====================================== claims checked in SpecStats (fees)
\* Whether a receipt names stablecoin a as its fee token.
PaysFeeIn(r, a) == r.feeToken # Null /\ Lower(Val(r.feeToken)) = a

\* The fee amounts of the receipts that pay in a: gasUsed * effectiveGasPrice
\* where both are present.
RECURSIVE FeeAmounts(_, _)
FeeAmounts(receipts, a) ==
  IF receipts = <<>> THEN 0
  ELSE LET r == Head(receipts)
       IN (IF PaysFeeIn(r, a) /\ r.gasUsed # Null /\ r.effectiveGasPrice # Null
           THEN Val(r.gasUsed) * Val(r.effectiveGasPrice) ELSE 0)
          + FeeAmounts(Tail(receipts), a)

\* C25: for every known stablecoin, feePaymentCount is the number of receipts
\* whose lowercased feeToken is its address and feeVolume the sum of
\* gasUsed * effectiveGasPrice over those of them that carry both; receipts
\* without feeToken or with another feeToken count nowhere.
C25_FeePaymentsCounted ==
  (call.fn = "calculateStablecoinStats" /\ call.done /\ ~call.threw) =>
    /\ \A a \in KnownStablecoins :
         LET count == IF a \in DOMAIN call.stats
                      THEN call.stats[a].feePaymentCount ELSE 0
             volume == IF a \in DOMAIN call.stats THEN call.stats[a].feeVolume ELSE 0
         IN /\ count = Cardinality({i \in 1..Len(call.receipts) :
                                     PaysFeeIn(call.receipts[i], a)})
            /\ volume = FeeAmounts(call.receipts, a)
    /\ DOMAIN call.stats \subseteq KnownStablecoins

\* C25 witness: "0xabcd" is known; of two receipts paying the fee in "0xAbCd"
\* one has no gasUsed: two fee payments, the volume of one (3 * 2).
C25_Witness ==
  /\ call.fn = "calculateStablecoinStats" /\ call.done /\ ~call.threw
  /\ Len(call.receipts) = 2
  /\ call.receipts[1] = StatsReceipts[6] /\ call.receipts[2] = StatsReceipts[1]
  /\ "0xabcd" \in DOMAIN call.stats
  /\ call.stats["0xabcd"].feePaymentCount = 2
  /\ call.stats["0xabcd"].feeVolume = 6

\* ============================================ claims checked in SpecDrain
\* The rows of the table that a sweep with this cutoff selects.
ExpiredRows(cutoff) ==
  {i \in 1..Len(transactions) : IsExpired(transactions[i], cutoff)}

\* C26: every sweep leaves its loop, for tables of 0 to MaxBatches full
\* batches of expired rows, one row less and one row more; when it returns
\* and no row below its cutoff was ingested while it ran, no row with a
\* timestamp below its cutoff is left.  That holds for a sweep started after
\* an earlier one threw between two batches as well.
C26_SweepTerminatesClean ==
  /\ (sweep.pc \in {"find", "delete"}) ~> (sweep.pc \in {"done", "threw"})
  /\ [](sweep.pc = "done" /\ ~sweep.expiredWritten =>
         ExpiredRows(sweep.cutoff) = {})

\* C26 witness: of 2000 expired rows the first sweep deleted one batch and
\* threw; the second counted the other 1000, deleted them in one full batch,
\* found nothing more and returned.
C26_Witness ==
  /\ sweep.pc = "done" /\ sweep.runs = 2
  /\ sweep.countToDelete = SweepBatchSize
  /\ sweep.totalDeleted = SweepBatchSize
  /\ sweep.ids = <<>>
  /\ ~sweep.expiredWritten
  /\ ExpiredRows(sweep.cutoff) = {}
  /\ nextId >= 2 * SweepBatchSize + 3

\* ============================================== claims checked in SpecJob
\* The Retry-After value an error carries: in its own headers, in those of
\* its response or in those of its cause, whatever holds the headers.
CarriedHeader(x) ==
  IF x = Null \/ Val(x).headers = Null THEN Null
  ELSE IF Val(Val(x).headers).retryAfter = Some(<<>>) THEN Null
  ELSE Val(Val(x).headers).retryAfter
CarriedRetryAfter(error) ==
  IF CarriedHeader(error) # Null THEN CarriedHeader(error)
  ELSE IF CarriedHeader(Val(error).response) # Null
    THEN CarriedHeader(Val(error).response)
  ELSE CarriedHeader(Val(error).cause)

\* The duration that value stands for, in milliseconds: delta-seconds, or the
\* time left until an HTTP date.
ServerDelay(error, now) ==
  LET v == CarriedRetryAfter(error)
  IN IF v = Null THEN Null
     ELSE IF AllDec(Val(v)) THEN Some(DigitsValue(Val(v), 10) * 1000)
     ELSE IF Val(v) = HttpDate THEN Some(30000 - now)
     ELSE Null

\* A message that speaks of a rate limit, or that holds the number 429.
RateLimitShaped(message) ==
  LET m == ToLowerCase(message)
  IN \/ \E k \in {1, 3, 4} : Includes(m, rateLimitIndicators[k])
     \/ \E i \in 1..(Len(m) - 2) :
          /\ SubSeq(m, i, i + 2) = rateLimitIndicators[2]
          /\ (i > 1 => ~IsDecDigit(m[i - 1]))
          /\ (i + 3 <= Len(m) => ~IsDecDigit(m[i + 3]))

RateLimitFailure(error) ==
  /\ error # Null
  /\ \/ Has429(error) \/ Has429(Val(error).cause)
     \/ Has429(Val(error).error) \/ Has429(Val(error).response)
     \/ Val(error).isError /\ RateLimitShaped(Val(error).message)

\* C27: a failure with a rate-limit error ends in a RetryAfterError whose
\* delay is the retry-after duration the error carries, or
\* calculateExponentialBackoff(attempt) when it carries none; every other
\* failure rethrows the error it caught.
C27_RetryAfterOrRethrow ==
  (call.fn = "ingestLatestBlock" /\ call.done) =>
    IF RateLimitFailure(call.error)
    THEN /\ call.thrown.kind = "RetryAfterError"
         /\ call.thrown.retryAfterMs =
              (IF ServerDelay(call.error, call.now) # Null
               THEN Dbl(Val(ServerDelay(call.error, call.now)), 0)
               ELSE calculateExponentialBackoff(call.attempt, call.random))
    ELSE /\ call.thrown.kind = "rethrown"
         /\ call.thrown.error = call.error

\* ================================== claims checked in Spec (fourth part)
\* C28: a call that has thrown has run no detection check and no statistics
\* step and has created no stablecoin row, and the step in which a call throws
\* leaves the stablecoins table as it was.
C28_ThrowBeforeAggregation ==
  /\ [](\A p \in Procs :
          pc[p] = "threw" =>
            ~trace[p].detect /\ ~trace[p].statsRun /\ trace[p].created = 0)
  /\ [][\A p \in Procs :
          (pc[p] # "threw" /\ pc'[p] = "threw") => stablecoins' = stablecoins]_vars

\* C28 witness: a call of block 1 threw at its batch upsert; another call of
\* block 1 returned, and the row of "0xabcd" counts the block's one Transfer
\* and one fee payment once.
C28_Witness ==
  \E p, q \in Procs :
    /\ pc[p] = "threw" /\ trace[p].persist = "failed" /\ BlockOf(p).number = 1
    /\ pc[q] = "returned" /\ result[q].kind = "success" /\ BlockOf(q).number = 1
    /\ \E i \in 1..Len(stablecoins) :
         /\ stablecoins[i].address = "0xabcd"
         /\ stablecoins[i].transferCount = 1
         /\ stablecoins[i].feePaymentCount = 1

\* C29: the batch upsert of a call for block N leaves every hash of the block
\* with a row whose blockNumber is N, also where the receipt fetch failed;
\* and no step replaces a stored blockNumber by 0 or a stored blockHash or
\* status by null.
C29_BlockNumberKept ==
  [][/\ \A p \in Procs :
          (pc[p] = "persist" /\ trace'[p].persist = "ok") =>
            \A k \in 1..Len(HashesOf(p)) :
              \A j \in RowWithHash(transactions', HashesOf(p)[k]) :
                transactions'[j].blockNumber = BlockOf(p).number
     /\ \A i \in 1..Len(transactions) :
          \A j \in RowWithHash(transactions', transactions[i].hash) :
            /\ transactions[i].blockNumber # 0 => transactions'[j].blockNumber # 0
            /\ transactions[i].blockHash # Null => transactions'[j].blockHash # Null
            /\ transactions[i].status # Null => transactions'[j].status # Null]_vars

\* The mapping a call's statistics calculation leaves, read after the step.
CalculatedStats(p) == IF pc[p] = "update" THEN stats[p] ELSE <<>>

\* C30: when a call's statistics calculation runs, every address check of the
\* call has settled, every address the call recorded is among the stablecoins
\* the calculation reads, and the mapping it returns counts, for each such
\* address, every Transfer event and every fee payment of the block's
\* receipts.
C30_DetectedCountedSameCall ==
  [][\A p \in Procs :
       (pc[p] = "stats" /\ pc'[p] # "stats" /\ trace'[p].soft = trace[p].soft) =>
         /\ \A k \in 1..Len(chk[p]) : chk[p][k] \in Settled
         /\ \A k \in 1..Len(chk[p]) :
              chk[p][k] = "true" =>
                LET a == Lower(cand[p][k])
                    receipts == FetchedReceipts(p, 1)
                    st == CalculatedStats(p)'
                    entry == IF a \in DOMAIN st THEN st[a]
                             ELSE [transferCount |-> 0, transferVolume |-> 0,
                                   feePaymentCount |-> 0, feeVolume |-> 0]
                IN /\ a \in KnownStablecoins
                   /\ entry.transferCount = TransferEvents(receipts, a)
                   /\ entry.transferVolume = TransferAmounts(receipts, a)
                   /\ entry.feePaymentCount =
                        Cardinality({i \in 1..Len(receipts) : PaysFeeIn(receipts[i], a)})
                   /\ entry.feeVolume = FeeAmounts(receipts, a)]_vars

====
